---- MODULE Spec2Model ----
(***************************************************************************)
(* State-machine model of the intranet API server                          *)
(* (src/backend/.tmp-db-inspect.cjs).  The relational store is modelled as *)
(* committed tables plus, per request, the uncommitted work of the         *)
(* transaction the request holds (READ COMMITTED: a statement sees the     *)
(* committed rows and its own transaction's changes).  Every `await` of a  *)
(* handler is one step, so concurrent requests interleave between queries. *)
(***************************************************************************)
EXTENDS Integers, Sequences, FiniteSets, TLC, Bags

(* ------------------------------ bounds -------------------------------- *)
MaxCompany == 3
MaxUser == 3
MaxPost == 2
MaxMessage == 2

Procs == {"p1", "p2"}

NULL == 0

(* ------------------------------ strings ------------------------------- *)
\* The strings the requests and rows are drawn from.  toLowerCase / LOWER()
\* and trim() are given by their effect on these strings.
EmailStrings == {"a@x", "A@X", " a@x ", "b@x", "c@x"}
Passwords == {"pw1", "pw2"}
RoleStrings == {"admin", "company", "ADMIN", "COMPANY"}

toLowerCase(s) ==
  CASE s = "A@X" -> "a@x"
    [] s = "Admin" -> "admin"
    [] s = " A@X " -> " a@x "
    [] s = "ADMIN" -> "admin"
    [] s = "COMPANY" -> "company"
    [] s = "Role" -> "role"
    [] s = "ROLE" -> "role"
    [] s = "User" -> "user"
    [] s = "Company" -> "company"
    [] s = "postId" -> "postid"
    [] s = "companyId" -> "companyid"
    [] s = "userId" -> "userid"
    [] s = "authorId" -> "authorid"
    [] s = "Acme" -> "acme"
    [] s = "Zeta" -> "zeta"
    [] s = "Post" -> "post"
    [] s = "Comment" -> "comment"
    [] s = "Message" -> "message"
    [] s = "UserSettings" -> "usersettings"
    [] s = "updatedAt" -> "updatedat"
    [] s = "createdAt" -> "createdat"
    [] OTHER -> s

trim(s) ==
  CASE s = " a@x " -> "a@x"
    [] s = " A@X " -> "A@X"
    [] OTHER -> s

\* bcrypt.hash / bcrypt.compare: the hash determines the password.
bcryptHash(pw) == <<"bcrypt", pw>>
bcryptCompare(pw, hash) == hash = bcryptHash(pw)

(* ------------------------------ schema -------------------------------- *)
OptionalCompanyCols ==
  {"industry", "location", "website", "email", "phone", "status", "description"}

\* Outcome of a statement sent to the store: it runs, or it raises an error.
QueryOutcomes == {"ok", "err"}

VARIABLES
  Company,   \* committed "Company" rows: id -> [name, cols]
  User,      \* committed "User" rows: id -> [email, password, role, companyId]
  Post,      \* committed "Post" rows: id -> [authorId]
  Comment,   \* committed "Comment" rows: id -> [postId, companyId, userId, authorId]
  Message,   \* committed "Message" rows: id -> [senderCompanyId, receiverCompanyId, createdAt]
  UserSettings, \* committed "UserSettings" rows [userId, notifications]
  seq,       \* the SERIAL sequences of the tables
  schema,    \* the columns, constraints and enum of the database
  pc,        \* where each request handler stands
  req,       \* the request each handler is serving
  loc,       \* the handler's local variables
  resp,      \* the response sent (status 0: none yet)
  tx,        \* the open transaction of the handler's pooled client
  \* The Messages view of one browser (src/unnamed/part_002):
  user,                 \* useAuth().user: [role, companyId]
  adminCompanyId,       \* useState<number | null>(null)
  companies,            \* useState<Company[]>([])
  messages,             \* useState<DbMessage[]>([])
  conversations,        \* useState<Conversation[]>([])
  selectedConversation, \* useState<Conversation | null>(null)
  newMessage,           \* useState('')
  calls,                \* the apiFetch calls in flight
  clock,                \* Date.now()
  \* The AuthProvider of the browser (src/unnamed/part_001):
  authToken,            \* localStorage.getItem('authToken')
  demoAuth              \* isDemoAuthEnabled()

authvars == <<authToken, demoAuth>>
viewvars == <<authvars, user, adminCompanyId, companies, messages, conversations,
              selectedConversation, newMessage, calls, clock>>
\* What the handlers of the forum, company, message and login routes leave
\* alone: the schema, the UserSettings table and the browser.
restvars == <<schema, UserSettings, viewvars>>
handlervars == <<pc, req, loc, resp, tx>>
vars == <<Company, User, Post, Comment, Message, UserSettings, seq, schema,
          pc, req, loc, resp, tx, viewvars>>
dbvars == <<Company, User, Post, Comment, Message>>

(* ------------------------------- tables -------------------------------- *)
\* A table is a function from ids to rows.
Restrict(t, S) == [i \in (DOMAIN t) \cap S |-> t[i]]
Without(t, S) == [i \in (DOMAIN t) \ S |-> t[i]]
EmptyTable == [i \in {} |-> NULL]

(* --------------------------- request plumbing ------------------------- *)
NoUser == [id |-> NULL, email |-> "", role |-> "", companyId |-> NULL]

\* A JSON response.  Fields a handler does not send keep these defaults.
NoResp ==
  [status |-> 0, message |-> "", token |-> "", user |-> NoUser, id |-> NULL, list |-> <<>>,
   notifications |-> "", row |-> <<>>, updates |-> <<>>]

NoReq ==
  [op |-> "", email |-> "", password |-> "", role |-> "", id |-> NULL,
   companyId |-> NULL, userId |-> NULL, receiverId |-> NULL, text |-> "",
   name |-> "", notifications |-> "", param |-> "", body |-> <<>>,
   userPayload |-> <<>>, hasCompanyPayload |-> FALSE]

\* The startup steps of line 1268: ensureAdminCompany, whose place is kept
\* in pc, and the three that are one statement each.
SideSteps == {"ensureMessagesTable", "ensureUserSettingsTable", "logDatabaseInfo"}
StartupSteps == SideSteps \cup {"ensureAdminCompany"}

\* A start of the server: where its one-statement steps are ("" before the
\* start, then running, done or failed), the tables its steps have created,
\* and how it ended ("" while open, then listening or failed).
NoBoot == [steps |-> [s \in SideSteps |-> ""], created |-> {}, outcome |-> ""]

\* No row of "User": result.rows[0] of a SELECT that found none.
NoUserRow ==
  [id |-> NULL, email |-> "", password |-> bcryptHash(""), role |-> "", companyId |-> NULL]

NoLoc ==
  [companyId |-> NULL, authorColumn |-> "", authorValue |-> NULL, newId |-> NULL,
   roleValue |-> "", roleUncommitted |-> FALSE, select |-> <<>>, deleted |-> {},
   control |-> <<>>, assignments |-> <<>>, boot |-> NoBoot, user |-> NoUserRow, hashedPassword |-> <<>>,
   updates |-> <<>>]

NoTx ==
  [open |-> FALSE,
   delCompany |-> {}, delUser |-> {}, delPost |-> {}, delComment |-> {}, delMessage |-> {},
   insCompany |-> EmptyTable, insUser |-> EmptyTable]

\* res.status(code).json({message}) followed by return.
Reply(p, r) ==
  /\ resp' = [resp EXCEPT ![p] = r]
  /\ pc' = [pc EXCEPT ![p] = "done"]

\* What the handler has done with its pooled client is kept in `control`:
\* pool.connect(), the BEGIN, COMMIT and ROLLBACK statements it has sent and
\* whether they failed, and client.release().
Sent(p, statements) == loc' = [loc EXCEPT ![p].control = @ \o statements]

Json(status, message) == [NoResp EXCEPT !.status = status, !.message = message]

\* The outcomes of a statement that names the given tables: it raises an
\* error when the database lacks one of them.
Outcomes(tables) == IF tables \subseteq schema.tables THEN QueryOutcomes ELSE {"err"}

\* error.message of the error a failing statement throws: a statement the
\* store could not run (the connection is lost, a table is missing), one
\* that a foreign key forbids, one that names a column the table does not
\* have.
QueryError == "query failed"
FkError == "violates foreign key constraint"
ColumnError == "column does not exist"

\* getTableColumns(tableName), lines 87-93: the columns the catalog lists
\* for the table, none for a table the database does not have.
TableColumns(tableName, columns) == IF tableName \in schema.tables THEN columns ELSE {}

\* getTableColumns('User') (line 344, line 507) and the columns of "Post"
\* the handlers name literally (lines 994, 1017).
UserColumns == TableColumns("User", schema.userCols)
PostColumns == TableColumns("Post", {"id", "title", "authorId", "createdAt"})

\* getTableColumns('Company').
CompanyColumns ==
  TableColumns("Company", {"id"} \cup (IF schema.companyName THEN {"name"} ELSE {})
                            \cup schema.companyCols)

\* The client has read the response; the worker serves the next request.
Finish(p) ==
  /\ pc[p] = "done"
  /\ pc' = [pc EXCEPT ![p] = "idle"]
  /\ req' = [req EXCEPT ![p] = NoReq]
  /\ loc' = [loc EXCEPT ![p] = NoLoc]
  /\ resp' = [resp EXCEPT ![p] = NoResp]
  /\ UNCHANGED <<dbvars, seq, restvars, tx>>

(* ------------------------- POST /api/auth/login ----------------------- *)
LoginRequests ==
  {[NoReq EXCEPT !.op = "login", !.email = e, !.password = w, !.role = r] :
     e \in EmailStrings \cup {""}, w \in Passwords \cup {""}, r \in RoleStrings \cup {""}}

normalizedEmail(email) == toLowerCase(trim(email))

\* Lines 143-148: destructure the body, validate, or go on to the query.
LoginStart(p, requests) ==
  /\ pc[p] = "idle"
  /\ \E r \in requests :
       /\ req' = [req EXCEPT ![p] = r]
       /\ IF normalizedEmail(r.email) = "" \/ r.password = ""
            THEN Reply(p, Json(400, "Email and password are required."))
            ELSE /\ pc' = [pc EXCEPT ![p] = "login_query"]
                 /\ UNCHANGED resp
  /\ UNCHANGED <<dbvars, seq, restvars, loc, tx>>

\* SELECT ... FROM "User" WHERE LOWER(email) = $1 LIMIT 1
UsersByEmail(lowered) == {u \in DOMAIN User : toLowerCase(User[u].email) = lowered}

RoleMismatchMut(requestedRole, userRole) == FALSE
\* Line 165: requestedRole && userRole !== requestedRole
RoleMismatch(requestedRole, userRole) ==
  requestedRole # "" /\ userRole # requestedRole

\* The row of user u as the SELECT of line 151 returns it; without a row,
\* result.rows[0] is undefined (no id).
SelectedUser(u) ==
  IF u = NULL THEN NoUserRow
  ELSE [id |-> u, email |-> User[u].email, password |-> User[u].password,
        role |-> User[u].role, companyId |-> User[u].companyId]

safeUserMut(row, userRole) == row
\* Lines 175-180: the user record of the answer.
safeUser(row, userRole) ==
  [id |-> row.id, email |-> row.email, role |-> userRole, companyId |-> row.companyId]

\* Lines 156-167: what the handler answers before it compares the password,
\* without a row or with a row of another role; no answer (status 0) when it
\* goes on to bcrypt.compare.
LoginRefusal(r, row) ==
  IF row.id = NULL THEN Json(401, "Invalid credentials.")
  ELSE IF RoleMismatch(toLowerCase(r.role), toLowerCase(row.role))
    THEN Json(401, "Invalid role for this account.")
  ELSE NoResp

\* Lines 169-185: the answer once bcrypt.compare has returned.
LoginCompared(r, row) ==
  IF ~bcryptCompare(r.password, row.password) THEN Json(401, "Invalid credentials.")
  ELSE [NoResp EXCEPT !.status = 200, !.token = "dev-session-token",
                      !.user = safeUser(row, toLowerCase(row.role))]

\* Lines 156-185: the answer for a row (or none) when no await fails.
LoginAnswer(r, row) ==
  IF LoginRefusal(r, row).status # 0 THEN LoginRefusal(r, row) ELSE LoginCompared(r, row)

\* Line 152 names "companyId": the statement is refused when "User" has no
\* such column.
LoginRefused == "companyId" \notin UserColumns

\* Lines 150-167: the query and the answers that need no password check; a
\* failing or refused query is caught (500).  Otherwise the handler keeps the row and
\* awaits bcrypt.compare.
LoginQuery(p) ==
  /\ pc[p] = "login_query"
  /\ \E o \in Outcomes({"User"}) :
       IF o = "err" \/ LoginRefused THEN Reply(p, Json(500, "Server error.")) /\ UNCHANGED loc
       ELSE LET found == UsersByEmail(normalizedEmail(req[p].email))
            IN \E u \in (IF found = {} THEN {NULL} ELSE found) :
                 IF LoginRefusal(req[p], SelectedUser(u)).status # 0 THEN
                   /\ Reply(p, LoginRefusal(req[p], SelectedUser(u)))
                   /\ UNCHANGED loc
                 ELSE
                   /\ pc' = [pc EXCEPT ![p] = "login_compare"]
                   /\ loc' = [loc EXCEPT ![p].user = SelectedUser(u)]
                   /\ UNCHANGED resp
  /\ UNCHANGED <<dbvars, seq, restvars, req, tx>>

\* Lines 169-189: bcrypt.compare has returned (or thrown, which is caught:
\* 500), and the handler answers from the row it holds.
LoginCompare(p) ==
  /\ pc[p] = "login_compare"
  /\ \E o \in QueryOutcomes :
       Reply(p, IF o = "err" THEN Json(500, "Server error.")
                ELSE LoginCompared(req[p], loc[p].user))
  /\ UNCHANGED <<dbvars, seq, restvars, req, loc, tx>>

(* ------------------------- schema introspection ----------------------- *)
\* getTableColumns('Comment'): the column names as the catalog spells them.
CommentColumns == TableColumns("Comment", schema.commentCols)

Min(S) == CHOOSE x \in S : \A y \in S : x <= y
Max(S) == CHOOSE x \in S : \A y \in S : x >= y

\* Lines 95-107: the first candidate that some column equals ignoring case;
\* "" stands for null.
resolveColumn(columns, candidates) ==
  LET hits(i) == {c \in columns : toLowerCase(c) = toLowerCase(candidates[i])}
      found == {i \in 1..Len(candidates) : hits(i) # {}}
  IN IF found = {} THEN "" ELSE CHOOSE c \in hits(Min(found)) : TRUE

\* Lines 109-126: the table the foreign key on Comment's author column
\* references; "" when the column carries no foreign key.
getForeignKeyTarget(columnName) ==
  IF toLowerCase(columnName) \in {"authorid", "author_id"} THEN schema.authorTarget ELSE ""

\* The field of a Comment row that a column name stores.
RowField(column) ==
  CASE toLowerCase(column) \in {"postid", "post_id"} -> "postId"
    [] toLowerCase(column) \in {"companyid", "company_id"} -> "companyId"
    [] toLowerCase(column) \in {"userid", "user_id"} -> "userId"
    [] toLowerCase(column) \in {"authorid", "author_id"} -> "authorId"

NoComment == [postId |-> NULL, companyId |-> NULL, userId |-> NULL, authorId |-> NULL]

\* A statement that names a column the table does not have raises an error.
HasColumn(columns, name) == name \in columns

(* --------------------- rows visible to a statement -------------------- *)
\* Rows other open transactions have deleted and not yet committed: a
\* statement that needs one of them waits for that transaction to end.
LockedByOthers(p, field) == UNION {tx[q][field] : q \in Procs \ {p}}

\* Foreign keys of the data model (User.companyId, Post.authorId,
\* Comment.postId and the Comment author columns): ON DELETE RESTRICT.
\* Message's two foreign keys are ON DELETE CASCADE (lines 31-32).
PostsOfCompany(posts, c) == {i \in DOMAIN posts : posts[i].authorId = c}
UsersOfCompany(users, c) == {i \in DOMAIN users : users[i].companyId = c}
CommentsOfPost(comments, i) == {k \in DOMAIN comments : comments[k].postId = i}
MessagesOfCompany(stored, c) ==
  {m \in DOMAIN stored : stored[m].senderCompanyId = c \/ stored[m].receiverCompanyId = c}

\* Comment rows whose author column is a foreign key to table `target` and
\* holds id i.
CommentsReferencing(comments, target, i) ==
  {k \in DOMAIN comments :
     \/ target = "Company" /\ comments[k].companyId = i
     \/ target = "User" /\ comments[k].userId = i
     \/ target = schema.authorTarget /\ comments[k].authorId = i}

MessageFkOkMut(s, r) == TRUE
\* Lines 31-32: both companies of an inserted Message must exist.
MessageFkOk(s, r) == s \in DOMAIN Company /\ r \in DOMAIN Company

PostFkOkMut(c) == TRUE
\* Post.authorId references "Company": the company of an inserted Post
\* must exist.
PostFkOk(c) == c \in DOMAIN Company

(* ------------------------ POST /api/forum/posts ----------------------- *)
Titles == {"", "t"}
CompanyIds == 0..MaxCompany
UserIds == 0..MaxUser

\* The decimal text of a company id, as a JSON body may carry it.
IdText == <<"1", "2", "3", "4", "5", "6">>

\* Number(x) of a value that is no number (Number('abc')): falsy, no id.
NaN == 0 - 1

\* What the body can hold as companyId: nothing (""), the text of an id that
\* may or may not be a company's, and two truthy texts that Number() turns
\* into a falsy number: '0' and 'abc'.
BodyCompanyIds == {"", "0", "abc"} \cup {IdText[i] : i \in 1..MaxCompany}

\* !!x of a body text.
Truthy(text) == text # ""

\* Number(text): the id whose decimal text it is, 0 for '' and '0', else NaN.
Number(text) ==
  IF \E i \in DOMAIN IdText : IdText[i] = text
  THEN CHOOSE i \in DOMAIN IdText : IdText[i] = text
  ELSE IF text \in {"", "0"} THEN 0 ELSE NaN

\* !x of a number or null.
Falsy(n) == n \in {NULL, NaN}

ResolvedCompanyIdMut(companyId) == IF Truthy(companyId) THEN NULL ELSE Number(companyId)
\* Line 973: companyId ? Number(companyId) : null
ResolvedCompanyId(companyId) == IF Truthy(companyId) THEN Number(companyId) ELSE NULL

CreatePostRequests ==
  {[NoReq EXCEPT !.op = "createPost", !.text = t, !.companyId = c, !.userId = u] :
     t \in Titles, c \in BodyCompanyIds, u \in UserIds}

\* Lines 966-982 up to the first await.
CreatePostStart(p, requests) ==
  /\ pc[p] = "idle"
  /\ \E r \in requests :
       /\ req' = [req EXCEPT ![p] = r]
       /\ IF r.text = "" THEN
            /\ Reply(p, Json(400, "Title is required."))
            /\ UNCHANGED loc
          ELSE IF Falsy(ResolvedCompanyId(r.companyId)) /\ r.userId # NULL THEN
            /\ pc' = [pc EXCEPT ![p] = "cp_user"]
            /\ UNCHANGED <<resp, loc>>
          ELSE IF Falsy(ResolvedCompanyId(r.companyId)) THEN
            /\ Reply(p, Json(400, "Company is required to create a post."))
            /\ UNCHANGED loc
          ELSE
            /\ pc' = [pc EXCEPT ![p] = "cp_company"]
            /\ loc' = [loc EXCEPT ![p].companyId = ResolvedCompanyId(r.companyId)]
            /\ UNCHANGED resp
  /\ UNCHANGED <<dbvars, seq, restvars, tx>>

\* SELECT "companyId" FROM "User" WHERE id = $1: rows[0]?.companyId ?? null
UserCompany(userId) == IF userId \in DOMAIN User THEN User[userId].companyId ELSE NULL

\* Lines 976-982.
CreatePostUser(p) ==
  /\ pc[p] = "cp_user"
  /\ \E o \in Outcomes({"User"}) :
       IF o = "err" THEN Reply(p, Json(500, QueryError)) /\ UNCHANGED loc
       ELSE IF "companyId" \notin UserColumns THEN
         Reply(p, Json(500, ColumnError)) /\ UNCHANGED loc
       ELSE IF UserCompany(req[p].userId) = NULL THEN
         Reply(p, Json(400, "Company is required to create a post.")) /\ UNCHANGED loc
       ELSE
         /\ loc' = [loc EXCEPT ![p].companyId = UserCompany(req[p].userId)]
         /\ pc' = [pc EXCEPT ![p] = "cp_company"]
         /\ UNCHANGED resp
  /\ UNCHANGED <<dbvars, seq, restvars, req, tx>>

CompanyMissingMut(c) == FALSE
\* SELECT id FROM "Company" WHERE id = $1: !rows.length
CompanyMissing(c) == c \notin DOMAIN Company

\* Lines 984-987.
CreatePostCompany(p) ==
  /\ pc[p] = "cp_company"
  /\ \E o \in Outcomes({"Company"}) :
       IF o = "err" THEN Reply(p, Json(500, QueryError))
       ELSE IF CompanyMissing(loc[p].companyId) THEN Reply(p, Json(400, "Company not found."))
       ELSE pc' = [pc EXCEPT ![p] = "cp_columns"] /\ UNCHANGED resp
  /\ UNCHANGED <<dbvars, seq, restvars, req, loc, tx>>

\* Line 989: await getTableColumns('Post'); a failing query is answered
\* with 500.
CreatePostColumns(p) ==
  /\ pc[p] = "cp_columns"
  /\ \E o \in QueryOutcomes :
       IF o = "err" THEN Reply(p, Json(500, QueryError))
       ELSE pc' = [pc EXCEPT ![p] = "cp_insert"] /\ UNCHANGED resp
  /\ UNCHANGED <<dbvars, seq, restvars, req, loc, tx>>

\* Lines 990-1031: INSERT INTO "Post" ... RETURNING id.  The insert waits
\* while another transaction holds the company row deleted-but-uncommitted;
\* it raises an error when the company row is gone.
CreatePostInsert(p) ==
  /\ pc[p] = "cp_insert"
  /\ seq.Post <= MaxPost
  /\ loc[p].companyId \notin LockedByOthers(p, "delCompany")
  /\ \E o \in Outcomes({"Post"}) :
       IF o = "err" \/ ~PostFkOk(loc[p].companyId) THEN
         /\ Reply(p, Json(500, IF o = "err" THEN QueryError ELSE FkError))
         /\ UNCHANGED <<Post, seq>>
       ELSE
         /\ Post' = (seq.Post :> [authorId |-> loc[p].companyId]) @@ Post
         /\ seq' = [seq EXCEPT !.Post = @ + 1]
         /\ Reply(p, [NoResp EXCEPT !.status = 200, !.id = seq.Post])
  /\ UNCHANGED <<Company, User, Comment, Message, restvars, req, loc, tx>>

(* -------------------- DELETE /api/forum/posts/:id --------------------- *)
PostIds == 0..MaxPost

DeletePostRequests == {[NoReq EXCEPT !.op = "deletePost", !.id = i] : i \in PostIds}

\* Lines 1039-1043.
DeletePostStart(p, requests) ==
  /\ pc[p] = "idle"
  /\ \E r \in requests :
       /\ req' = [req EXCEPT ![p] = r]
       /\ IF r.id = NULL THEN Reply(p, Json(400, "Invalid post id."))
          ELSE pc' = [pc EXCEPT ![p] = "dp_comments"] /\ UNCHANGED resp
  /\ UNCHANGED <<dbvars, seq, restvars, loc, tx>>

DeletePostCommentsMut(p) ==
  /\ pc[p] = "dp_comments"
  /\ pc' = [pc EXCEPT ![p] = "dp_post"]
  /\ UNCHANGED <<dbvars, seq, restvars, req, loc, resp, tx>>
\* Line 1046: DELETE FROM "Comment" WHERE "postId" = $1, a statement of its
\* own on the pool: its effect is committed when it returns.  The result of
\* the statement (the rows it removed), which the handler does not read, is
\* kept in `deleted`.
DeletePostComments(p) ==
  /\ pc[p] = "dp_comments"
  /\ LET targets == CommentsOfPost(Comment, req[p].id)
     IN /\ targets \cap LockedByOthers(p, "delComment") = {}
        /\ \E o \in Outcomes({"Comment"}) :
             IF o = "err" \/ ~HasColumn(CommentColumns, "postId") THEN
               /\ Reply(p, Json(500, IF o = "err" THEN QueryError ELSE ColumnError))
               /\ UNCHANGED <<Comment, loc>>
             ELSE
               /\ Comment' = Without(Comment, targets)
               /\ loc' = [loc EXCEPT ![p].deleted = targets]
               /\ pc' = [pc EXCEPT ![p] = "dp_post"]
               /\ UNCHANGED resp
  /\ UNCHANGED <<Company, User, Post, Message, seq, restvars, req, tx>>

\* Foreign key Comment.postId -> Post: a post with comments cannot go.
PostRestricted(i) == i \in DOMAIN Post /\ CommentsOfPost(Comment, i) # {}

\* Lines 1048-1054: DELETE FROM "Post" WHERE id = $1 RETURNING id.
DeletePostRow(p) ==
  /\ pc[p] = "dp_post"
  /\ req[p].id \notin LockedByOthers(p, "delPost")
  /\ \E o \in Outcomes({"Post"}) :
       IF o = "err" \/ PostRestricted(req[p].id) THEN
         Reply(p, Json(500, IF o = "err" THEN QueryError ELSE FkError)) /\ UNCHANGED Post
       ELSE IF req[p].id \notin DOMAIN Post THEN
         Reply(p, Json(404, "Post not found.")) /\ UNCHANGED Post
       ELSE
         /\ Post' = Without(Post, {req[p].id})
         /\ Reply(p, [NoResp EXCEPT !.status = 200, !.id = req[p].id])
  /\ UNCHANGED <<Company, User, Comment, Message, seq, restvars, req, loc, tx>>

(* ----------------- POST /api/forum/posts/:id/comments ----------------- *)
Contents == {"", "c"}

CreateCommentRequests ==
  {[NoReq EXCEPT !.op = "createComment", !.id = i, !.text = t, !.companyId = c, !.userId = u] :
     i \in PostIds, t \in Contents, c \in CompanyIds, u \in UserIds}

\* Lines 1120-1138 up to the first await.
CreateCommentStart(p, requests) ==
  /\ pc[p] = "idle"
  /\ \E r \in requests :
       /\ req' = [req EXCEPT ![p] = r]
       /\ IF r.id = NULL \/ r.text = "" THEN
            /\ Reply(p, Json(400, "Post and content are required."))
            /\ UNCHANGED loc
          ELSE IF r.companyId = NULL /\ r.userId # NULL THEN
            /\ pc' = [pc EXCEPT ![p] = "cc_user"]
            /\ UNCHANGED <<resp, loc>>
          ELSE IF r.companyId = NULL THEN
            /\ Reply(p, Json(400, "Company is required to comment."))
            /\ UNCHANGED loc
          ELSE
            /\ pc' = [pc EXCEPT ![p] = "cc_company"]
            /\ loc' = [loc EXCEPT ![p].companyId = r.companyId]
            /\ UNCHANGED resp
  /\ UNCHANGED <<dbvars, seq, restvars, tx>>

\* Lines 1131-1138.
CreateCommentUser(p) ==
  /\ pc[p] = "cc_user"
  /\ \E o \in Outcomes({"User"}) :
       IF o = "err" THEN Reply(p, Json(500, QueryError)) /\ UNCHANGED loc
       ELSE IF "companyId" \notin UserColumns THEN
         Reply(p, Json(500, ColumnError)) /\ UNCHANGED loc
       ELSE IF UserCompany(req[p].userId) = NULL THEN
         Reply(p, Json(400, "Company is required to comment.")) /\ UNCHANGED loc
       ELSE
         /\ loc' = [loc EXCEPT ![p].companyId = UserCompany(req[p].userId)]
         /\ pc' = [pc EXCEPT ![p] = "cc_company"]
         /\ UNCHANGED resp
  /\ UNCHANGED <<dbvars, seq, restvars, req, tx>>

\* Lines 1140-1143: SELECT id, name FROM "Company" WHERE id = $1, refused
\* when "Company" has no name column.
CreateCommentCompany(p) ==
  /\ pc[p] = "cc_company"
  /\ \E o \in Outcomes({"Company"}) :
       IF o = "err" THEN Reply(p, Json(500, QueryError))
       ELSE IF "name" \notin CompanyColumns THEN Reply(p, Json(500, ColumnError))
       ELSE IF CompanyMissing(loc[p].companyId) THEN Reply(p, Json(400, "Company not found."))
       ELSE pc' = [pc EXCEPT ![p] = "cc_columns"] /\ UNCHANGED resp
  /\ UNCHANGED <<dbvars, seq, restvars, req, loc, tx>>

\* Lines 1156-1174: the author column and the value to store in it, as
\* <<authorColumn, authorValue>>; "" and NULL stand for null.
AuthorOf(columns, resolvedCompanyId, resolvedUserId) ==
  LET companyIdColumn == resolveColumn(columns, <<"companyId", "company_id">>)
      userIdColumn == resolveColumn(columns, <<"userId", "user_id">>)
      authorIdColumn == resolveColumn(columns, <<"authorId", "author_id">>)
  IN IF companyIdColumn # "" THEN <<companyIdColumn, resolvedCompanyId>>
     ELSE IF userIdColumn # "" THEN <<userIdColumn, resolvedUserId>>
     ELSE IF authorIdColumn # "" THEN
       IF toLowerCase(getForeignKeyTarget(authorIdColumn)) = "user"
         THEN <<authorIdColumn, resolvedUserId>>
         ELSE <<authorIdColumn, resolvedCompanyId>>
     ELSE <<"", NULL>>

AuthorMissingMut(authorColumn, authorValue) == authorColumn = ""
\* Line 1176: !authorColumn || !authorValue
AuthorMissing(authorColumn, authorValue) == authorColumn = "" \/ authorValue = NULL

\* Lines 1159-1165: the author is known from the columns alone, without
\* asking for the foreign key of an authorId column.
AuthorWithoutTarget(columns) ==
  \/ resolveColumn(columns, <<"companyId", "company_id">>) # ""
  \/ resolveColumn(columns, <<"userId", "user_id">>) # ""
  \/ resolveColumn(columns, <<"authorId", "author_id">>) = ""

\* Lines 1176-1178: the request is refused without an author; otherwise the
\* insert lists are built next.
CreateCommentAuthored(p, author) ==
  IF AuthorMissing(author[1], author[2]) THEN
    Reply(p, Json(400, "Author is required to comment.")) /\ UNCHANGED loc
  ELSE
    /\ loc' = [loc EXCEPT ![p].authorColumn = author[1], ![p].authorValue = author[2]]
    /\ pc' = [pc EXCEPT ![p] = "cc_build"]
    /\ UNCHANGED resp

\* Lines 1145-1165 and 1176-1178: read the Comment columns; without a post
\* column the answer is 500; with a companyId or userId column (or with no
\* author column at all) the author is picked at once, and otherwise the
\* handler asks for the table the authorId column references.
CreateCommentColumns(p) ==
  /\ pc[p] = "cc_columns"
  /\ \E o \in QueryOutcomes :
       IF o = "err" THEN
         Reply(p, Json(500, QueryError)) /\ UNCHANGED loc
       ELSE IF resolveColumn(CommentColumns, <<"postId", "post_id">>) = "" THEN
         Reply(p, Json(500, "Comment schema is missing post reference.")) /\ UNCHANGED loc
       ELSE IF AuthorWithoutTarget(CommentColumns) THEN
         CreateCommentAuthored(p, AuthorOf(CommentColumns, loc[p].companyId, req[p].userId))
       ELSE
         /\ pc' = [pc EXCEPT ![p] = "cc_author"]
         /\ UNCHANGED <<resp, loc>>
  /\ UNCHANGED <<dbvars, seq, restvars, req, tx>>

\* Lines 1166-1178: await getForeignKeyTarget('Comment', authorIdColumn),
\* then the author column and value.
CreateCommentAuthor(p) ==
  /\ pc[p] = "cc_author"
  /\ \E o \in QueryOutcomes :
       IF o = "err" THEN
         Reply(p, Json(500, QueryError)) /\ UNCHANGED loc
       ELSE CreateCommentAuthored(p, AuthorOf(CommentColumns, loc[p].companyId, req[p].userId))
  /\ UNCHANGED <<dbvars, seq, restvars, req, tx>>

\* Lines 1180-1194: the insert lists are built.  Line 1190 reads
\* updatedAtColumn, which this handler never declares (only the GET handler
\* does, line 1072): the read raises a ReferenceError, which the catch at
\* line 1213 answers with 500.  The INSERT of line 1196 is never sent.
CreateCommentBuild(p) ==
  /\ pc[p] = "cc_build"
  /\ Reply(p, Json(500, "updatedAtColumn is not defined"))
  /\ UNCHANGED <<dbvars, seq, restvars, req, loc, tx>>

(* --------------------------- /api/messages ---------------------------- *)
SendMessageRequests ==
  {[NoReq EXCEPT !.op = "sendMessage", !.companyId = s, !.receiverId = r, !.text = t] :
     s \in CompanyIds, r \in CompanyIds, t \in Contents}

\* Line 1249 up to the first await of POST /api/messages.
SendMessageStart(p, requests) ==
  /\ pc[p] = "idle"
  /\ \E r \in requests :
       /\ req' = [req EXCEPT ![p] = r]
       /\ IF r.companyId = NULL \/ r.receiverId = NULL \/ r.text = "" THEN
            Reply(p, Json(400, "senderCompanyId, receiverCompanyId and content are required."))
          ELSE pc' = [pc EXCEPT ![p] = "sm_insert"] /\ UNCHANGED resp
  /\ UNCHANGED <<dbvars, seq, restvars, loc, tx>>

\* DEFAULT NOW(): not before the createdAt of any stored message, and
\* possibly equal to the latest one.
Now(stored) ==
  IF DOMAIN stored = {} THEN {1}
  ELSE LET latest == Max({stored[m].createdAt : m \in DOMAIN stored})
       IN {latest, latest + 1}

\* Lines 1254-1261: INSERT INTO "Message" ... RETURNING.  The insert waits
\* for a transaction that holds one of the two companies deleted.
SendMessageInsert(p) ==
  /\ pc[p] = "sm_insert"
  /\ seq.Message <= MaxMessage
  /\ {req[p].companyId, req[p].receiverId} \cap LockedByOthers(p, "delCompany") = {}
  /\ \E o \in Outcomes({"Message"}) :
       IF o = "err" \/ ~MessageFkOk(req[p].companyId, req[p].receiverId) THEN
         /\ Reply(p, Json(500, "Server error."))
         /\ UNCHANGED <<Message, seq>>
       ELSE
         \E at \in Now(Message) :
           /\ Message' = (seq.Message :> [senderCompanyId |-> req[p].companyId,
                                           receiverCompanyId |-> req[p].receiverId,
                                           createdAt |-> at]) @@ Message
           /\ seq' = [seq EXCEPT !.Message = @ + 1]
           /\ Reply(p, [NoResp EXCEPT !.status = 200, !.id = seq.Message])
  /\ UNCHANGED <<Company, User, Post, Comment, restvars, req, loc, tx>>

ListMessagesRequests ==
  {[NoReq EXCEPT !.op = "listMessages", !.companyId = c] : c \in CompanyIds}

\* Line 1222 up to the first await of GET /api/messages.
ListMessagesStart(p, requests) ==
  /\ pc[p] = "idle"
  /\ \E r \in requests :
       /\ req' = [req EXCEPT ![p] = r]
       /\ IF r.companyId = NULL THEN Reply(p, Json(400, "companyId is required."))
          ELSE pc' = [pc EXCEPT ![p] = "lm_query"] /\ UNCHANGED resp
  /\ UNCHANGED <<dbvars, seq, restvars, loc, tx>>

MessagesWhereMut(c) == {m \in DOMAIN Message : Message[m].senderCompanyId = c}
\* Lines 1231-1234: FROM "Message" m JOIN "Company" cs JOIN "Company" cr
\* WHERE m."senderCompanyId" = $1 OR m."receiverCompanyId" = $1
MessagesWhere(c) ==
  {m \in DOMAIN Message :
     /\ Message[m].senderCompanyId \in DOMAIN Company
     /\ Message[m].receiverCompanyId \in DOMAIN Company
     /\ (Message[m].senderCompanyId = c \/ Message[m].receiverCompanyId = c)}

OrderedByCreatedAtMut(S) ==
  {s \in [1..Cardinality(S) -> S] : \A i, j \in 1..Cardinality(S) : i < j => s[i] # s[j]}
\* The orders ORDER BY m."createdAt" ASC may return the rows S in: every
\* arrangement in which createdAt never decreases.
OrderedByCreatedAt(S) ==
  {s \in [1..Cardinality(S) -> S] :
     /\ \A i, j \in 1..Cardinality(S) : i < j =>
          (s[i] # s[j] /\ Message[s[i]].createdAt <= Message[s[j]].createdAt)}

\* Lines 1230-1233: the statement names cs.name and cr.name; the store
\* refuses it when "Company" has no name column.
ListMessagesRefused == "name" \notin CompanyColumns

\* Lines 1226-1243.
ListMessagesQuery(p) ==
  /\ pc[p] = "lm_query"
  /\ \E o \in Outcomes({"Message", "Company"}) :
       IF o = "err" \/ ListMessagesRefused THEN Reply(p, Json(500, "Server error."))
       ELSE \E rows \in OrderedByCreatedAt(MessagesWhere(req[p].companyId)) :
              Reply(p, [NoResp EXCEPT !.status = 200, !.list = rows])
  /\ UNCHANGED <<dbvars, seq, restvars, req, loc, tx>>

(* -------------------- /api/settings/notifications --------------------- *)
\* The notifications of a request body: none, a string, two objects, the
\* empty array and an array with an element.
NotificationBodies == {"undefined", "'on'", "{email:true}", "{email:false}", "[]", "[true]"}
JsonObjects == {"{}", "{email:true}", "{email:false}"}
JsonArrays == {"[]", "[true]"}

\* Line 870: notifications && typeof notifications === 'object' ? notifications : {}
Payload(notifications) ==
  IF notifications \in JsonObjects \cup JsonArrays THEN notifications ELSE "{}"

\* The text the driver sends for the parameter: JSON for an object, the
\* array literal of the database for an array ('{}' for the empty one).
ParameterText(payload) ==
  CASE payload = "[]" -> "{}"
    [] payload = "[true]" -> "{\"true\"}"
    [] OTHER -> payload

SettingsUserIds == 0..MaxUser

GetSettingsRequests ==
  {[NoReq EXCEPT !.op = "getSettings", !.userId = u] : u \in SettingsUserIds}

PutSettingsRequests ==
  {[NoReq EXCEPT !.op = "putSettings", !.userId = u, !.notifications = n] :
     u \in SettingsUserIds, n \in NotificationBodies}

\* Lines 842-846: GET up to its query.
GetSettingsStart(p, requests) ==
  /\ pc[p] = "idle"
  /\ \E r \in requests :
       /\ req' = [req EXCEPT ![p] = r]
       /\ IF r.userId = NULL THEN Reply(p, Json(400, "userId is required."))
          ELSE pc' = [pc EXCEPT ![p] = "gs_query"] /\ UNCHANGED resp
  /\ UNCHANGED <<dbvars, seq, restvars, loc, tx>>

\* SELECT notifications FROM "UserSettings" WHERE "userId" = $1 LIMIT 1
SettingsOf(userId) == {s \in UserSettings : s.userId = userId}

\* Lines 848-859: result.rows[0]?.notifications || {}
GetSettingsQuery(p) ==
  /\ pc[p] = "gs_query"
  /\ \E o \in Outcomes({"UserSettings"}) :
       IF o = "err" THEN Reply(p, Json(500, "Server error."))
       ELSE \E found \in (IF SettingsOf(req[p].userId) = {} THEN {"{}"}
                          ELSE {s.notifications : s \in SettingsOf(req[p].userId)}) :
              Reply(p, [NoResp EXCEPT !.status = 200, !.notifications = found])
  /\ UNCHANGED <<dbvars, seq, restvars, req, loc, tx>>

\* Lines 863-867: PUT up to its statement.
PutSettingsStart(p, requests) ==
  /\ pc[p] = "idle"
  /\ \E r \in requests :
       /\ req' = [req EXCEPT ![p] = r]
       /\ IF r.userId = NULL THEN Reply(p, Json(400, "userId is required."))
          ELSE pc' = [pc EXCEPT ![p] = "ps_upsert"] /\ UNCHANGED resp
  /\ UNCHANGED <<dbvars, seq, restvars, loc, tx>>

UpsertedMut(rows, row) == rows \cup {row}
\* Lines 872-874: INSERT ... ON CONFLICT ("userId") DO UPDATE SET
\* notifications = EXCLUDED.notifications
Upserted(rows, row) == {s \in rows : s.userId # row.userId} \cup {row}

\* Lines 869-883: the statement fails when the store fails, when the text
\* is not JSON, and when the user does not exist (line 42: REFERENCES
\* "User"(id)), each answered 500 with the message of the error (line 882);
\* it waits for a transaction that holds the user deleted.
PutSettingsUpsert(p) ==
  /\ pc[p] = "ps_upsert"
  /\ req[p].userId \notin LockedByOthers(p, "delUser")
  /\ \E o \in Outcomes({"UserSettings"}) :
       LET text == ParameterText(Payload(req[p].notifications))
       IN IF o = "err" \/ text \notin JsonObjects THEN
            /\ Reply(p, Json(500, QueryError))
            /\ UNCHANGED UserSettings
          ELSE IF req[p].userId \notin DOMAIN User THEN
            /\ Reply(p, Json(500, FkError))
            /\ UNCHANGED UserSettings
          ELSE
            /\ UserSettings' = Upserted(UserSettings, [userId |-> req[p].userId,
                                                       notifications |-> text])
            /\ Reply(p, [NoResp EXCEPT !.status = 200, !.notifications = text])
  /\ UNCHANGED <<dbvars, seq, schema, viewvars, req, loc, tx>>

(* --------------------------- transactions ----------------------------- *)
\* What the statements of p's transaction see: the committed rows, less the
\* rows p has deleted, plus the rows p has inserted.
ViewCompany(p) == tx[p].insCompany @@ Without(Company, tx[p].delCompany)
ViewUser(p) == tx[p].insUser @@ Without(User, tx[p].delUser)
ViewPost(p) == Without(Post, tx[p].delPost)
ViewComment(p) == Without(Comment, tx[p].delComment)
ViewMessage(p) == Without(Message, tx[p].delMessage)

\* COMMIT makes the transaction's inserts and deletes the committed state;
\* the settings of a deleted user go with the user (line 42: ON DELETE
\* CASCADE).
Commit(p) ==
  /\ Company' = ViewCompany(p)
  /\ User' = ViewUser(p)
  /\ Post' = ViewPost(p)
  /\ Comment' = ViewComment(p)
  /\ Message' = ViewMessage(p)
  /\ UserSettings' = {s \in UserSettings : s.userId \in DOMAIN ViewUser(p)}
  /\ tx' = [tx EXCEPT ![p] = NoTx]

RollbackMut(p) == Commit(p)
\* ROLLBACK (or the loss of the connection) discards them.
Rollback(p) ==
  /\ tx' = [tx EXCEPT ![p] = NoTx]
  /\ UNCHANGED dbvars

\* An error inside the try block: control passes to the catch clause.
Throw(p) == pc' = [pc EXCEPT ![p] = "catch"]

\* The same for the error of a statement that names a missing column.
ThrowColumn(p) == pc' = [pc EXCEPT ![p] = "catch_column"]

\* The same for the error of a statement a foreign key forbids.
ThrowFk(p) == pc' = [pc EXCEPT ![p] = "catch_fk"]

(* ---------------------- POST /api/admin/companies --------------------- *)
NullText == "<null>"
CompanyNames == {"", "Acme"}
CreateCompanyEmails == {"", "a@x", "c@x"}
CreateCompanyPasswords == {"", "pw1"}

CreateCompanyRequests ==
  {[NoReq EXCEPT !.op = "createCompany", !.name = n, !.email = e, !.password = w] :
     n \in CompanyNames, e \in CreateCompanyEmails, w \in CreateCompanyPasswords}

\* Line 289 up to the first await.
CreateCompanyStart(p, requests) ==
  /\ pc[p] = "idle"
  /\ \E r \in requests :
       /\ req' = [req EXCEPT ![p] = r]
       /\ IF r.name = "" THEN Reply(p, Json(400, "name is required."))
          ELSE pc' = [pc EXCEPT ![p] = "connect"] /\ UNCHANGED resp
  /\ UNCHANGED <<dbvars, seq, restvars, loc, tx>>

\* Lines 293 and 502: const client = await pool.connect(), outside any try.
\* When it rejects, the handler's promise rejects and nothing is answered.
Connect(p) ==
  /\ pc[p] = "connect"
  /\ \E o \in QueryOutcomes :
       /\ pc' = [pc EXCEPT ![p] = IF o = "err" THEN "unanswered" ELSE "begin"]
       /\ Sent(p, IF o = "err" THEN <<>> ELSE <<"connect">>)
  /\ UNCHANGED <<dbvars, seq, restvars, req, resp, tx>>

\* Lines 296 and 505: await client.query('BEGIN')
Begin(p) ==
  /\ pc[p] = "begin"
  /\ \E o \in QueryOutcomes :
       IF o = "err" THEN Throw(p) /\ Sent(p, <<"BEGIN failed">>) /\ UNCHANGED tx
       ELSE /\ tx' = [tx EXCEPT ![p].open = TRUE]
            /\ Sent(p, <<"BEGIN">>)
            /\ pc' = [pc EXCEPT ![p] = IF req[p].op = "createCompany"
                                         THEN "co_columns" ELSE "dc_userColumns"]
  /\ UNCHANGED <<dbvars, seq, restvars, req, resp>>

\* The two spellings of the timestamp column (lines 58-59, 299-300 and
\* 442-443).
StampCols == {"updatedAt", "updated_at"}

\* new Date() as the store keeps it.
NewDate == "now"

\* Lines 65-73, 326-334 and 466-472: the timestamp column a statement
\* writes, "updatedAt" when the table has it, else updated_at when the table
\* has that one, else none.
StampColumn(columns) ==
  IF "updatedAt" \in columns THEN {"updatedAt"}
  ELSE IF "updated_at" \in columns THEN {"updated_at"}
  ELSE {}

\* Lines 301-334: the optional columns written are those the table has and
\* the body defines, '' being stored as NULL, and the timestamp column,
\* which holds new Date(); the other columns of the row are NULL.  Of the
\* optional fields the requests here define only email.
CompanyValues(r) ==
  [c \in schema.companyCols |->
     IF c = "email" /\ c \in CompanyColumns /\ r.email # "" THEN r.email
     ELSE IF c \in StampColumn(CompanyColumns) THEN NewDate
     ELSE NullText]

\* An await of getTableColumns (lines 87-93) inside the try block of a
\* transactional handler: the catalog is read with pool.query, and a failing
\* query is thrown to the catch clause.
ColumnsRead(p, next) ==
  /\ \E o \in QueryOutcomes :
       IF o = "err" THEN Throw(p) ELSE pc' = [pc EXCEPT ![p] = next]
  /\ UNCHANGED <<dbvars, seq, restvars, req, loc, resp, tx>>

\* Line 298: await getTableColumns('Company').
CreateCompanyColumns(p) == pc[p] = "co_columns" /\ ColumnsRead(p, "co_insert")

\* Lines 299-343: INSERT INTO "Company" ... RETURNING *, then the test
\* body.email && body.password.  The column list starts with name (line
\* 312): the statement is refused when "Company" has no such column.
CreateCompanyInsert(p) ==
  /\ pc[p] = "co_insert"
  /\ seq.Company <= MaxCompany
  /\ \E o \in Outcomes({"Company"}) :
       IF o = "err" THEN Throw(p) /\ UNCHANGED <<tx, seq, loc>>
       ELSE IF "name" \notin CompanyColumns THEN ThrowColumn(p) /\ UNCHANGED <<tx, seq, loc>>
       ELSE
         /\ tx' = [tx EXCEPT ![p].insCompany =
                     (seq.Company :> [name |-> trim(req[p].name), vals |-> CompanyValues(req[p])]) @@ @]
         /\ seq' = [seq EXCEPT !.Company = @ + 1]
         /\ loc' = [loc EXCEPT ![p].newId = seq.Company]
         /\ pc' = [pc EXCEPT ![p] = IF req[p].email # "" /\ req[p].password # ""
                                      THEN "co_userColumns" ELSE "commit"]
  /\ UNCHANGED <<dbvars, restvars, req, resp>>

\* SELECT e.enumlabel ... WHERE lower(t.typname) = lower('Role')
EnumLabels == IF toLowerCase(schema.roleType) = "role" THEN schema.roleLabels ELSE <<>>

\* The label whose lower case is 'company', or "" when there is none.
CompanyLabel(labels) ==
  LET hits == {i \in 1..Len(labels) : toLowerCase(labels[i]) = "company"}
  IN IF hits = {} THEN "" ELSE labels[Min(hits)]


canCreateUserMut(columns) == TRUE
\* Line 345: the "User" table has the four columns of the insert.
canCreateUser(columns) == {"email", "password", "role", "companyId"} \subseteq columns

\* Lines 344-349: await getTableColumns('User'); without one of the four
\* columns no user is created and the company is committed.
CreateCompanyUserColumns(p) ==
  /\ pc[p] = "co_userColumns"
  /\ ColumnsRead(p, IF canCreateUser(UserColumns) THEN "co_enum" ELSE "commit")

\* Lines 350-388 (first enum query): the role to store is 'company' when
\* there is no enum, the enum's own label when it has one, and otherwise the
\* enum type has to be altered.
CreateCompanyEnum(p) ==
  /\ pc[p] = "co_enum"
  /\ \E o \in QueryOutcomes :
       IF o = "err" THEN Throw(p) /\ UNCHANGED loc
       ELSE IF Len(EnumLabels) = 0 THEN
         /\ loc' = [loc EXCEPT ![p].roleValue = "company"]
         /\ pc' = [pc EXCEPT ![p] = "co_existing"]
       ELSE IF CompanyLabel(EnumLabels) = "" THEN
         /\ pc' = [pc EXCEPT ![p] = "co_type"]
         /\ UNCHANGED loc
       ELSE
         /\ loc' = [loc EXCEPT ![p].roleValue = CompanyLabel(EnumLabels)]
         /\ pc' = [pc EXCEPT ![p] = "co_existing"]
  /\ UNCHANGED <<dbvars, seq, restvars, req, resp, tx>>

\* SELECT typname FROM pg_type WHERE typname = 'Role' OR typname = 'role'
TypeName == IF schema.roleType \in {"Role", "role"} THEN schema.roleType ELSE ""

\* Lines 362-383: look the enum type up by its exact name.
CreateCompanyType(p) ==
  /\ pc[p] = "co_type"
  /\ \E o \in QueryOutcomes :
       IF o = "err" THEN Throw(p)
       ELSE IF TypeName # "" THEN pc' = [pc EXCEPT ![p] = "co_alter"]
       ELSE pc' = [pc EXCEPT ![p] = "co_rollback_role"]
  /\ UNCHANGED <<dbvars, seq, restvars, req, loc, resp, tx>>

\* Line 369: ALTER TYPE ... ADD VALUE inside the open transaction.  The
\* server either refuses the statement in a transaction block, or accepts it
\* and refuses every use of the new label until the transaction has
\* committed.
CreateCompanyAlter(p) ==
  /\ pc[p] = "co_alter"
  /\ \E o \in QueryOutcomes :
       IF o = "err" THEN Throw(p) /\ UNCHANGED loc
       ELSE /\ loc' = [loc EXCEPT ![p].roleUncommitted = TRUE]
            /\ pc' = [pc EXCEPT ![p] = "co_refresh"]
  /\ UNCHANGED <<dbvars, seq, restvars, req, resp, tx>>

\* Lines 370-377: the enum is read again, in the transaction that added the
\* label; the role to store is the label found, or 'company'.
CreateCompanyRefresh(p) ==
  /\ pc[p] = "co_refresh"
  /\ \E o \in QueryOutcomes :
       IF o = "err" THEN Throw(p) /\ UNCHANGED loc
       ELSE /\ loc' = [loc EXCEPT ![p].roleValue = "company"]
            /\ pc' = [pc EXCEPT ![p] = "co_existing"]
  /\ UNCHANGED <<dbvars, seq, restvars, req, resp, tx>>

CreateCompanyRollbackMut(p) ==
  /\ pc[p] \in {"co_rollback_role", "co_rollback_email"}
  /\ Commit(p)
  /\ Sent(p, <<"ROLLBACK", "release">>)
  /\ Reply(p, Json(400, IF pc[p] = "co_rollback_role"
                          THEN "Role enum does not include \"company\" and could not be updated automatically."
                          ELSE "Email already exists."))
  /\ UNCHANGED <<seq, schema, viewvars, req>>

\* Lines 379-382 and 396-397: ROLLBACK, then the 400 answer.  The ROLLBACK
\* is inside the try block: when it fails the catch clause runs.
CreateCompanyRollback(p) ==
  /\ pc[p] \in {"co_rollback_role", "co_rollback_email"}
  /\ \E o \in QueryOutcomes :
       IF o = "err" THEN
         Throw(p) /\ Sent(p, <<"ROLLBACK failed">>) /\ UNCHANGED <<resp, tx, dbvars>>
       ELSE /\ Rollback(p)
            /\ Sent(p, <<"ROLLBACK", "release">>)
            /\ Reply(p, Json(400, IF pc[p] = "co_rollback_role"
                                    THEN "Role enum does not include \"company\" and could not be updated automatically."
                                    ELSE "Email already exists."))
  /\ UNCHANGED <<seq, restvars, req>>

\* SELECT id FROM "User" WHERE LOWER(email) = LOWER($1) LIMIT 1, on the client.
ExistingUser(p, email) ==
  {u \in DOMAIN ViewUser(p) : toLowerCase(ViewUser(p)[u].email) = toLowerCase(email)}

\* Lines 390-398.
CreateCompanyExisting(p) ==
  /\ pc[p] = "co_existing"
  /\ \E o \in Outcomes({"User"}) :
       IF o = "err" THEN Throw(p)
       ELSE IF ExistingUser(p, req[p].email) # {} THEN pc' = [pc EXCEPT ![p] = "co_rollback_email"]
       ELSE pc' = [pc EXCEPT ![p] = "co_hash"]
  /\ UNCHANGED <<dbvars, seq, restvars, req, loc, resp, tx>>

\* Line 400: await bcrypt.hash(String(body.password), 10); when it rejects
\* the catch clause runs.
CreateCompanyHash(p) ==
  /\ pc[p] = "co_hash"
  /\ \E o \in QueryOutcomes :
       IF o = "err" THEN Throw(p) /\ UNCHANGED loc
       ELSE /\ loc' = [loc EXCEPT ![p].hashedPassword = bcryptHash(req[p].password)]
            /\ pc' = [pc EXCEPT ![p] = "co_user"]
  /\ UNCHANGED <<dbvars, seq, restvars, req, resp, tx>>

\* Lines 401-418: INSERT INTO "User".
CreateCompanyUser(p) ==
  /\ pc[p] = "co_user"
  /\ seq.User <= MaxUser
  /\ \E o \in Outcomes({"User"}) :
       IF o = "err" \/ loc[p].roleUncommitted THEN Throw(p) /\ UNCHANGED <<tx, seq>>
       ELSE
         /\ tx' = [tx EXCEPT ![p].insUser =
                     (seq.User :> [email |-> req[p].email,
                                   password |-> loc[p].hashedPassword,
                                   role |-> loc[p].roleValue,
                                   companyId |-> loc[p].newId]) @@ @]
         /\ seq' = [seq EXCEPT !.User = @ + 1]
         /\ pc' = [pc EXCEPT ![p] = "commit"]
  /\ UNCHANGED <<dbvars, restvars, req, loc, resp>>

\* Lines 422-423 and 573-574: COMMIT, then the success answer.
CommitAndReply(p) ==
  /\ pc[p] = "commit"
  /\ \E o \in QueryOutcomes :
       IF o = "err" THEN
         Throw(p) /\ Sent(p, <<"COMMIT failed">>) /\ UNCHANGED <<resp, tx, dbvars, UserSettings>>
       ELSE /\ Commit(p)
            /\ Sent(p, <<"COMMIT", "release">>)
            /\ Reply(p, [NoResp EXCEPT !.status = 200,
                           !.id = IF req[p].op = "createCompany" THEN loc[p].newId ELSE req[p].id])
  /\ UNCHANGED <<seq, schema, viewvars, req>>

\* Lines 424-430 and 575-581: the catch clause rolls back and answers 500;
\* when the ROLLBACK itself fails the clause throws, the connection is
\* released by finally, and the request is never answered.  The transaction
\* ends with the connection.
Catch(p) ==
  /\ pc[p] \in {"catch", "catch_fk", "catch_column"}
  /\ Rollback(p)
  /\ \E o \in QueryOutcomes :
       IF o = "err" THEN
         /\ pc' = [pc EXCEPT ![p] = "unanswered"]
         /\ Sent(p, <<"ROLLBACK failed", "release">>)
         /\ UNCHANGED resp
       ELSE
         /\ Sent(p, <<"ROLLBACK", "release">>)
         /\ Reply(p, Json(500, IF pc[p] = "catch_fk" THEN FkError
                                 ELSE IF pc[p] = "catch_column" THEN ColumnError
                                 ELSE QueryError))
  /\ UNCHANGED <<seq, restvars, req>>

\* The client gives up on a request that is never answered.
Abandon(p) ==
  /\ pc[p] = "unanswered"
  /\ pc' = [pc EXCEPT ![p] = "idle"]
  /\ req' = [req EXCEPT ![p] = NoReq]
  /\ loc' = [loc EXCEPT ![p] = NoLoc]
  /\ UNCHANGED <<dbvars, seq, restvars, resp, tx>>

(* ------------------- DELETE /api/admin/companies/:id ------------------ *)
DeleteCompanyRequests == {[NoReq EXCEPT !.op = "deleteCompany", !.id = c] : c \in CompanyIds}

\* Lines 496-500 up to the first await.
DeleteCompanyStart(p, requests) ==
  /\ pc[p] = "idle"
  /\ \E r \in requests :
       /\ req' = [req EXCEPT ![p] = r]
       /\ IF r.id = NULL THEN Reply(p, Json(400, "Invalid company id."))
          ELSE pc' = [pc EXCEPT ![p] = "connect"] /\ UNCHANGED resp
  /\ UNCHANGED <<dbvars, seq, restvars, loc, tx>>

\* Lines 507-509: the three awaits of getTableColumns, one after the other.
DeleteCompanyUserColumns(p) == pc[p] = "dc_userColumns" /\ ColumnsRead(p, "dc_postColumns")
DeleteCompanyPostColumns(p) == pc[p] = "dc_postColumns" /\ ColumnsRead(p, "dc_commentColumns")
DeleteCompanyCommentColumns(p) == pc[p] = "dc_commentColumns" /\ ColumnsRead(p, "dc_message")

\* Lines 510-516: the columns resolved from the three tables.
userCompanyColumn == resolveColumn(UserColumns, <<"companyId", "company_id">>)
postAuthorColumn == resolveColumn(PostColumns, <<"authorId", "author_id">>)
commentPostColumn == resolveColumn(CommentColumns, <<"postId", "post_id">>)
commentCompanyColumn == resolveColumn(CommentColumns, <<"companyId", "company_id">>)
commentAuthorColumn == resolveColumn(CommentColumns, <<"authorId", "author_id">>)
commentUserColumn == resolveColumn(CommentColumns, <<"userId", "user_id">>)

\* The statements of the deletion in the order of the handler, and the test
\* under which each is sent (lines 518, 520, 527, 534, 543, 552, 559, 566).
DeleteStatements ==
  <<"dc_message", "dc_commentCompany", "dc_commentAuthor", "dc_commentUser",
    "dc_commentPost", "dc_post", "dc_user", "dc_company">>

DeleteSent(at) ==
  CASE at = "dc_commentCompany" -> commentCompanyColumn # ""
    [] at = "dc_commentAuthor" -> commentAuthorColumn # ""
    [] at = "dc_commentUser" -> commentUserColumn # "" /\ userCompanyColumn # ""
    [] at = "dc_commentPost" -> commentPostColumn # "" /\ postAuthorColumn # ""
    [] at = "dc_post" -> postAuthorColumn # ""
    [] at = "dc_user" -> userCompanyColumn # ""
    [] OTHER -> TRUE

IndexOf(seqn, x) == CHOOSE i \in DOMAIN seqn : seqn[i] = x

\* The statement the handler sends after the one at `at`.
AfterDelete(at) ==
  DeleteStatements[Min({i \in DOMAIN DeleteStatements :
                          i > IndexOf(DeleteStatements, at) /\ DeleteSent(DeleteStatements[i])})]

\* The table whose deleted rows a field of the transaction holds.
DeletedTable(field) ==
  CASE field = "delMessage" -> "Message"
    [] field = "delComment" -> "Comment"
    [] field = "delPost" -> "Post"
    [] field = "delUser" -> "User"
    [] field = "delCompany" -> "Company"

\* One DELETE of p's transaction: it waits while another transaction holds
\* one of its rows, raises an error when the statement fails or a foreign
\* key forbids it, and otherwise removes the rows from p's view.
DeleteStatement(p, next, field, targets, forbidden) ==
  /\ targets \cap LockedByOthers(p, field) = {}
  /\ \E o \in Outcomes({DeletedTable(field)}) :
       IF o = "err" THEN Throw(p) /\ UNCHANGED tx
       ELSE IF forbidden THEN ThrowFk(p) /\ UNCHANGED tx
       ELSE /\ tx' = [tx EXCEPT ![p][field] = @ \cup targets]
            /\ pc' = [pc EXCEPT ![p] = next]
  /\ UNCHANGED <<dbvars, seq, restvars, req, loc, resp>>

\* Line 518: DELETE FROM "Message" WHERE sender = $1 OR receiver = $1
DeleteCompanyMessages(p) ==
  /\ pc[p] = "dc_message"
  /\ DeleteStatement(p, AfterDelete("dc_message"), "delMessage",
                     MessagesOfCompany(ViewMessage(p), req[p].id), FALSE)

CommentsWhereMut(p, column, ids) ==
  IF column = "" \/ RowField(column) = "authorId" THEN {}
  ELSE {k \in DOMAIN ViewComment(p) : ViewComment(p)[k][RowField(column)] \in ids}
\* The Comment rows whose column `column` holds one of `ids`; none when the
\* column was not resolved.
CommentsWhere(p, column, ids) ==
  IF column = "" THEN {}
  ELSE {k \in DOMAIN ViewComment(p) : ViewComment(p)[k][RowField(column)] \in ids}

\* Lines 520-525: DELETE FROM "Comment" WHERE <companyId column> = $1
DeleteCompanyCommentsByCompany(p) ==
  /\ pc[p] = "dc_commentCompany"
  /\ DeleteStatement(p, AfterDelete("dc_commentCompany"), "delComment",
       CommentsWhere(p, commentCompanyColumn, {req[p].id}), FALSE)

\* Lines 527-532: DELETE FROM "Comment" WHERE <authorId column> = $1
DeleteCompanyCommentsByAuthor(p) ==
  /\ pc[p] = "dc_commentAuthor"
  /\ DeleteStatement(p, AfterDelete("dc_commentAuthor"), "delComment",
       CommentsWhere(p, commentAuthorColumn, {req[p].id}), FALSE)

\* Lines 534-541: DELETE FROM "Comment" WHERE <userId column> IN (users of $1)
DeleteCompanyCommentsByUser(p) ==
  /\ pc[p] = "dc_commentUser"
  /\ DeleteStatement(p, AfterDelete("dc_commentUser"), "delComment",
       CommentsWhere(p, commentUserColumn, UsersOfCompany(ViewUser(p), req[p].id)), FALSE)

DeleteCompanyCommentsByPostMut(p) ==
  /\ pc[p] = "dc_commentPost"
  /\ DeleteStatement(p, AfterDelete("dc_commentPost"), "delComment", {}, FALSE)
\* Lines 543-550: DELETE FROM "Comment" WHERE <postId column> IN (posts of $1)
DeleteCompanyCommentsByPost(p) ==
  /\ pc[p] = "dc_commentPost"
  /\ DeleteStatement(p, AfterDelete("dc_commentPost"), "delComment",
       CommentsWhere(p, commentPostColumn, PostsOfCompany(ViewPost(p), req[p].id)), FALSE)

\* Foreign key Comment.postId -> Post: a post with comments cannot go.
PostsRestricted(p, posts) ==
  \E i \in posts : CommentsOfPost(ViewComment(p), i) # {}

\* Lines 552-557: DELETE FROM "Post" WHERE "authorId" = $1
DeleteCompanyPosts(p) ==
  /\ pc[p] = "dc_post"
  /\ LET targets == PostsOfCompany(ViewPost(p), req[p].id)
     IN DeleteStatement(p, AfterDelete("dc_post"), "delPost", targets,
                        PostsRestricted(p, targets))

\* Foreign keys Comment.userId / Comment.authorId -> User.
UsersRestricted(p, users) ==
  \E u \in users : CommentsReferencing(ViewComment(p), "User", u) # {}

\* Lines 559-564: DELETE FROM "User" WHERE "companyId" = $1
DeleteCompanyUsers(p) ==
  /\ pc[p] = "dc_user"
  /\ LET targets == UsersOfCompany(ViewUser(p), req[p].id)
     IN DeleteStatement(p, AfterDelete("dc_user"), "delUser", targets,
                        UsersRestricted(p, targets))

\* Foreign keys Post.authorId, User.companyId and the Comment author
\* columns -> Company.
CompanyRestricted(p, c) ==
  \/ PostsOfCompany(ViewPost(p), c) # {}
  \/ UsersOfCompany(ViewUser(p), c) # {}
  \/ CommentsReferencing(ViewComment(p), "Company", c) # {}

\* Lines 566-571: DELETE FROM "Company" WHERE id = $1 RETURNING id.  The
\* Message rows of the company go with it (ON DELETE CASCADE, lines 31-32).
DeleteCompanyRow(p) ==
  /\ pc[p] = "dc_company"
  /\ LET c == req[p].id
         found == c \in DOMAIN ViewCompany(p)
         cascade == IF found THEN MessagesOfCompany(ViewMessage(p), c) ELSE {}
     IN /\ c \notin LockedByOthers(p, "delCompany")
        /\ cascade \cap LockedByOthers(p, "delMessage") = {}
        /\ \E o \in Outcomes({"Company"}) :
             IF o = "err" THEN Throw(p) /\ UNCHANGED tx
             ELSE IF found /\ CompanyRestricted(p, c) THEN ThrowFk(p) /\ UNCHANGED tx
             ELSE IF ~found THEN
               pc' = [pc EXCEPT ![p] = "dc_rollback"] /\ UNCHANGED tx
             ELSE
               /\ tx' = [tx EXCEPT ![p].delCompany = @ \cup {c},
                                   ![p].delMessage = @ \cup cascade]
               /\ pc' = [pc EXCEPT ![p] = "commit"]
  /\ UNCHANGED <<dbvars, seq, restvars, req, loc, resp>>

\* Lines 568-571: ROLLBACK, then 404.
DeleteCompanyNotFound(p) ==
  /\ pc[p] = "dc_rollback"
  /\ \E o \in QueryOutcomes :
       IF o = "err" THEN
         Throw(p) /\ Sent(p, <<"ROLLBACK failed">>) /\ UNCHANGED <<resp, tx, dbvars>>
       ELSE
         /\ Rollback(p)
         /\ Sent(p, <<"ROLLBACK", "release">>)
         /\ Reply(p, Json(404, "Company not found."))
  /\ UNCHANGED <<seq, restvars, req>>

(* -------------------------- GET /api/companies ------------------------ *)
ListCompaniesRequests == {[NoReq EXCEPT !.op = "listCompanies"]}

\* Line 888: the handler asks the catalog for the columns of "Company".
ListCompaniesStart(p, requests) ==
  /\ pc[p] = "idle"
  /\ \E r \in requests :
       /\ req' = [req EXCEPT ![p] = r]
       /\ pc' = [pc EXCEPT ![p] = "lc_columns"]
  /\ UNCHANGED <<dbvars, seq, restvars, loc, resp, tx>>


SelectItemMut(columns, c) == "column"
\* Lines 890-904: the select-list item of optional column c, the column
\* itself when the table has it and NULL::text otherwise.
SelectItem(columns, c) == IF c \in columns THEN "column" ELSE "null"

\* Lines 888-904: the catalog answers and the select list is built.
ListCompaniesSelect(p) ==
  /\ pc[p] = "lc_columns"
  /\ \E o \in QueryOutcomes :
       IF o = "err" THEN Reply(p, Json(500, "Server error.")) /\ UNCHANGED loc
       ELSE /\ loc' = [loc EXCEPT ![p].select =
                         [c \in OptionalCompanyCols |-> SelectItem(CompanyColumns, c)]]
            /\ pc' = [pc EXCEPT ![p] = "lc_query"]
            /\ UNCHANGED resp
  /\ UNCHANGED <<dbvars, seq, restvars, req, tx>>

\* One row of the result: id, name, the seven optional keys and employees
\* (COUNT(u.id) over the LEFT JOIN with "User").
CompanyListRow(select, i) ==
  [k \in {"id", "name", "employees"} \cup OptionalCompanyCols |->
     CASE k = "id" -> i
       [] k = "name" -> Company[i].name
       [] k = "employees" -> Cardinality(UsersOfCompany(User, i))
       [] OTHER -> IF select[k] = "column" THEN Company[i].vals[k] ELSE NullText]

\* The collation order of the company names used here.
NameRank(name) == CASE name = "Acme" -> 1 [] name = "Admin" -> 2 [] OTHER -> 3

\* ORDER BY c.name ASC: every arrangement of the ids in which the name never
\* decreases.
OrderedByName(S) ==
  {s \in [1..Cardinality(S) -> S] :
     \A i, j \in 1..Cardinality(S) : i < j =>
       (s[i] # s[j] /\ NameRank(Company[s[i]].name) <= NameRank(Company[s[j]].name))}

\* Lines 916-921: the statement names c.name and u."companyId" whatever the
\* catalog has answered; the store refuses it when one of them is missing.
ListCompaniesRefused == "name" \notin CompanyColumns \/ "companyId" \notin UserColumns

\* Lines 915-929: the query names the columns the select list names; one the
\* table does not have makes the statement fail.
ListCompaniesQuery(p) ==
  /\ pc[p] = "lc_query"
  /\ \E o \in Outcomes({"Company", "User"}) :
       LET named == {c \in OptionalCompanyCols : loc[p].select[c] = "column"}
       IN IF o = "err" \/ ListCompaniesRefused \/ ~(named \subseteq schema.companyCols) THEN
            Reply(p, Json(500, "Server error."))
          ELSE \E order \in OrderedByName(DOMAIN Company) :
                 Reply(p, [NoResp EXCEPT !.status = 200,
                             !.list = [n \in DOMAIN order |->
                                         CompanyListRow(loc[p].select, order[n])]])
  /\ UNCHANGED <<dbvars, seq, restvars, req, loc, tx>>

(* ---------------- the Messages view (src/unnamed/part_002) ------------- *)
\* The records keep the fields the view computes with; the fields it only
\* displays (content, createdAt, names, avatar, time, lastMessage, unread,
\* online) are left out.
MaxClock == 2
MaxCalls == 3
MaxSends == 2
MaxStored == 4

NoDbMessage == [id |-> NULL, senderCompanyId |-> NULL, receiverCompanyId |-> NULL]
NoConversation == [id |-> NULL, messages |-> <<>>]
NoCall ==
  [kind |-> "", stage |-> "", companyId |-> NULL, optimisticId |-> NULL,
   receiverCompanyId |-> NULL, isMounted |-> FALSE, ok |-> FALSE,
   rows |-> <<>>, created |-> NoDbMessage,
   email |-> "", password |-> "", token |-> "", user |-> NoUser, row |-> NoUserRow]

Drafts == {" ", "hi"}

\* Line 73: const isAdmin = user?.role === 'admin'
isAdmin == user.role = "admin"

\* Line 72: typeof user?.companyId === 'number' ? user.companyId
\* : Number(user?.companyId).  Without a user the argument is undefined and
\* Number(undefined) is NaN; Number(null) is 0.  The user's companyId is a
\* number or null in companyId and a string in companyIdString; a user
\* whose record has no companyId carries the string 'undefined', which
\* Number() turns into NaN as it does the value undefined.
currentCompanyId ==
  IF user.role = "" THEN NaN
  ELSE IF user.companyIdString # "" THEN Number(user.companyIdString)
  ELSE user.companyId

\* Line 74: currentCompanyId || adminCompanyId
effectiveCompanyId(admin) == IF currentCompanyId \in {0, NaN} THEN admin ELSE currentCompanyId

\* The row of a stored message as the two /api/messages handlers return it.
DbRow(m) ==
  [id |-> m, senderCompanyId |-> Message[m].senderCompanyId,
   receiverCompanyId |-> Message[m].receiverCompanyId]

nextConversationsMut(cs, ms, e) ==
  [i \in DOMAIN cs |->
     [id |-> cs[i].id,
      messages |-> [k \in DOMAIN ms |->
                      [id |-> ms[k].id,
                       senderId |-> IF ms[k].senderCompanyId = e THEN "me" ELSE "other"]]]]
\* Lines 137-172: one conversation per company other than the effective one,
\* holding the messages exchanged with it in the order of the list.
nextConversations(cs, ms, e) ==
  LET otherCompanies == SelectSeq(cs, LAMBDA company : company.id # e)
      convoMessageRecords(company) ==
        SelectSeq(ms, LAMBDA message :
          \/ message.senderCompanyId = e /\ message.receiverCompanyId = company.id
          \/ message.receiverCompanyId = e /\ message.senderCompanyId = company.id)
      convoMessages(company) ==
        [i \in DOMAIN convoMessageRecords(company) |->
           [id |-> convoMessageRecords(company)[i].id,
            senderId |-> IF convoMessageRecords(company)[i].senderCompanyId = e
                         THEN "me" ELSE "other"]]
  IN [i \in DOMAIN otherCompanies |->
        [id |-> otherCompanies[i].id, messages |-> convoMessages(otherCompanies[i])]]

\* A render with the new state cs, ms, admin, sel, followed by the effects of
\* lines 134-179 (the conversations are recomputed; with none selected the
\* first becomes the selected one) and of lines 181-187 (the selected
\* conversation follows its recomputed version when the lengths differ),
\* until nothing changes.
Render(cs, ms, admin, sel) ==
  LET e == effectiveCompanyId(admin)
      convs == IF e = NULL THEN conversations ELSE nextConversations(cs, ms, e)
      first == IF e # NULL /\ sel = NoConversation /\ Len(convs) > 0 THEN convs[1] ELSE sel
      found == {i \in DOMAIN convs : convs[i].id = first.id}
      updated == IF found = {} THEN first ELSE convs[Min(found)]
  IN /\ companies' = cs
     /\ messages' = ms
     /\ adminCompanyId' = admin
     /\ conversations' = convs
     /\ selectedConversation' =
          IF first # NoConversation /\ Len(updated.messages) # Len(first.messages)
          THEN updated ELSE first

\* The calls in flight are a bag: two calls may carry the same data.
Calling(cl, call) == cl (+) SetToBag({call})
Settled(cl, call) == cl (-) SetToBag({call})

\* Lines 104-106 and 128-130: the clean-up of an effect clears the isMounted
\* flag its pending answer will read.
Unmounted(cl, kinds) ==
  LET cleaned(call) == IF call.kind \in kinds THEN [call EXCEPT !.isMounted = FALSE] ELSE call
      copies(c) == BagCardinality([call \in {k \in BagToSet(cl) : cleaned(k) = c} |-> cl[call]])
  IN [c \in {cleaned(call) : call \in BagToSet(cl)} |-> copies(c)]

\* Lines 81-103: the effect that loads the companies sends its request.
loadCompanies(cl) ==
  Calling(cl, [NoCall EXCEPT !.kind = "companies", !.stage = "request", !.isMounted = TRUE])

\* Lines 110-127: the effect that loads the messages sends its request,
\* unless there is no effective company.
loadMessages(cl, e) ==
  IF e = NULL THEN cl
  ELSE Calling(cl, [NoCall EXCEPT !.kind = "messages", !.stage = "request",
                                  !.companyId = e, !.isMounted = TRUE])

\* The two effects run again when their dependencies (adminCompanyId, and
\* the effective company) change: the calls after adminCompanyId has changed
\* from `before` to `after`.
Reload(cl, before, after) ==
  IF before = after THEN cl
  ELSE LET again == loadCompanies(Unmounted(cl, {"companies"}))
       IN IF effectiveCompanyId(before) = effectiveCompanyId(after) THEN again
          ELSE loadMessages(Unmounted(again, {"messages"}), effectiveCompanyId(after))

\* Line 242: the view returns the card for accounts without a company
\* instead of the conversations and the chat.
CardShown == effectiveCompanyId(adminCompanyId) \in {NULL, NaN} /\ ~isAdmin

\* Lines 349 and 438-444: the input is rendered with a conversation selected.
InputShown == user.role # "" /\ ~CardShown /\ selectedConversation # NoConversation

\* Line 441: onChange={(e) => setNewMessage(e.target.value)}
Type(text) ==
  /\ InputShown
  /\ newMessage # text
  /\ newMessage' = text
  /\ UNCHANGED <<dbvars, UserSettings, seq, schema, handlervars, authvars, user, adminCompanyId, companies,
                 messages, conversations, selectedConversation, calls, clock>>

\* Date.now() has moved on by a millisecond.
Tick ==
  /\ clock < MaxClock
  /\ clock' = clock + 1
  /\ UNCHANGED <<dbvars, UserSettings, seq, schema, handlervars, authvars, user, adminCompanyId, companies,
                 messages, conversations, selectedConversation, newMessage, calls>>

\* Line 300: onClick={() => setSelectedConversation(conversation)}, of the
\* list the view renders when it does not return the card.
SelectConversation ==
  /\ user.role # "" /\ ~CardShown
  /\ \E i \in DOMAIN conversations :
       /\ conversations[i] # selectedConversation
       /\ Render(companies, messages, adminCompanyId, conversations[i])
  /\ UNCHANGED <<dbvars, UserSettings, seq, schema, handlervars, authvars, user, newMessage, calls, clock>>

\* Line 265: onValueChange={(value) => setAdminCompanyId(Number(value))},
\* offered to an admin.
SelectCompany ==
  /\ isAdmin
  /\ \E i \in DOMAIN companies :
       /\ companies[i].id # adminCompanyId
       /\ BagCardinality(Reload(calls, adminCompanyId, companies[i].id)) <= MaxCalls
       /\ Render(companies, messages, companies[i].id, selectedConversation)
       /\ calls' = Reload(calls, adminCompanyId, companies[i].id)
  /\ UNCHANGED <<dbvars, UserSettings, seq, schema, handlervars, authvars, user, newMessage, clock>>

TrimmedEmptyMut(text) == text = ""
\* Line 194: !newMessage.trim()
TrimmedEmpty(text) == text \in {"", " "}

\* The POSTs of the view that are in flight.
Sends(cl) == BagCardinality([call \in {k \in BagToSet(cl) : k.kind = "send"} |-> cl[call]])

\* Lines 193-218, called from the input and the button of lines 438-451:
\* the optimistic message is appended, the input cleared and the POST sent.
handleSendMessage ==
  /\ InputShown
  /\ ~TrimmedEmpty(newMessage)
  /\ selectedConversation # NoConversation
  /\ effectiveCompanyId(adminCompanyId) \notin {NULL, NaN}
  /\ Sends(calls) < MaxSends
  /\ seq.Message + Sends(calls) <= MaxStored
  /\ LET optimisticId == 0 - clock
         optimisticMessage ==
           [id |-> optimisticId, senderCompanyId |-> effectiveCompanyId(adminCompanyId),
            receiverCompanyId |-> selectedConversation.id]
     IN /\ Render(companies, Append(messages, optimisticMessage), adminCompanyId,
                  selectedConversation)
        /\ newMessage' = ""
        /\ calls' = Calling(calls,
                [NoCall EXCEPT !.kind = "send", !.stage = "request",
                               !.companyId = effectiveCompanyId(adminCompanyId),
                               !.receiverCompanyId = selectedConversation.id,
                               !.optimisticId = optimisticId])
  /\ UNCHANGED <<dbvars, UserSettings, seq, schema, handlervars, authvars, user, clock>>

\* The call c has been answered: with an error, or with rows, or with the
\* created message.
Answered(c, answer) == calls' = Calling(Settled(calls, c), answer)
Failed(c) == [c EXCEPT !.stage = "response", !.ok = FALSE]

\* GET /api/companies (lines 886-888) for a call of the view: the handler
\* reads the columns of "Company"; a failing query is answered with 500.
ServeCompaniesColumns ==
  /\ \E c \in BagToSet(calls) :
       /\ c.kind = "companies" /\ c.stage = "request"
       /\ \E o \in QueryOutcomes :
            IF o = "err" THEN Answered(c, Failed(c))
            ELSE Answered(c, [c EXCEPT !.stage = "columns"])
  /\ UNCHANGED <<dbvars, UserSettings, seq, schema, handlervars, authvars, user, adminCompanyId, companies,
                 messages, conversations, selectedConversation, newMessage, clock>>

\* GET /api/companies (lines 915-929): the SELECT and the answer.
ServeCompanies ==
  /\ \E c \in BagToSet(calls) :
       /\ c.kind = "companies" /\ c.stage = "columns"
       /\ \E o \in Outcomes({"Company", "User"}) :
            IF o = "err" \/ ListCompaniesRefused THEN Answered(c, Failed(c))
            ELSE \E order \in OrderedByName(DOMAIN Company) :
                   Answered(c, [c EXCEPT !.stage = "response", !.ok = TRUE,
                                  !.rows = [i \in DOMAIN order |->
                                              [id |-> order[i], name |-> Company[order[i]].name]]])
  /\ UNCHANGED <<dbvars, UserSettings, seq, schema, handlervars, authvars, user, adminCompanyId, companies,
                 messages, conversations, selectedConversation, newMessage, clock>>

\* GET /api/messages (lines 1219-1244) answers a call of the view.
ServeMessages ==
  /\ \E c \in BagToSet(calls) :
       /\ c.kind = "messages" /\ c.stage = "request"
       /\ \E o \in Outcomes({"Message", "Company"}) :
            IF o = "err" \/ ListMessagesRefused THEN Answered(c, Failed(c))
            ELSE \E order \in OrderedByCreatedAt(MessagesWhere(c.companyId)) :
                   Answered(c, [c EXCEPT !.stage = "response", !.ok = TRUE,
                                  !.rows = [i \in DOMAIN order |-> DbRow(order[i])]])
  /\ UNCHANGED <<dbvars, UserSettings, seq, schema, handlervars, authvars, user, adminCompanyId, companies,
                 messages, conversations, selectedConversation, newMessage, clock>>

\* POST /api/messages (lines 1246-1266) answers a call of the view.
ServeSend ==
  /\ \E c \in BagToSet(calls) :
       /\ c.kind = "send" /\ c.stage = "request"
       /\ \E o \in Outcomes({"Message"}) :
            IF o = "err" \/ ~MessageFkOk(c.companyId, c.receiverCompanyId) THEN
              /\ Answered(c, Failed(c))
              /\ UNCHANGED <<Message, seq>>
            ELSE
              \E at \in Now(Message) :
                /\ Message' = (seq.Message :> [senderCompanyId |-> c.companyId,
                                                receiverCompanyId |-> c.receiverCompanyId,
                                                createdAt |-> at]) @@ Message
                /\ seq' = [seq EXCEPT !.Message = @ + 1]
                /\ Answered(c, [c EXCEPT !.stage = "response", !.ok = TRUE,
                                  !.created = [id |-> seq.Message,
                                               senderCompanyId |-> c.companyId,
                                               receiverCompanyId |-> c.receiverCompanyId]])
  /\ UNCHANGED <<Company, User, Post, Comment, UserSettings, schema, handlervars, authvars, user,
                 adminCompanyId, companies, messages, conversations, selectedConversation,
                 newMessage, clock>>

\* Lines 84-101: the answer of loadCompanies.  A failure is logged; the
\* answer of a run that has been cleaned up is dropped; an admin with no
\* company chosen gets the company named admin, or else the first.
CompaniesLoaded ==
  /\ \E c \in BagToSet(calls) :
       /\ c.kind = "companies" /\ c.stage = "response"
       /\ LET companiesData == c.rows
              named == {i \in DOMAIN companiesData : toLowerCase(companiesData[i].name) = "admin"}
              chosen == IF named # {} THEN companiesData[Min(named)].id ELSE companiesData[1].id
              admin == IF isAdmin /\ adminCompanyId = NULL /\ Len(companiesData) > 0
                       THEN chosen ELSE adminCompanyId
          IN IF ~c.ok \/ ~c.isMounted THEN
               /\ calls' = Settled(calls, c)
               /\ UNCHANGED <<adminCompanyId, companies, messages, conversations,
                              selectedConversation>>
             ELSE
               /\ Render(companiesData, messages, admin, selectedConversation)
               /\ calls' = Reload(Settled(calls, c), adminCompanyId, admin)
  /\ UNCHANGED <<dbvars, UserSettings, seq, schema, handlervars, authvars, user, newMessage, clock>>

MessagesAppliedMut(call) == call.ok
\* Lines 117-121: the answer is applied unless the request failed or the
\* run of the effect has been cleaned up.
MessagesApplied(call) == call.ok /\ call.isMounted

\* Lines 115-125: the answer of loadMessages.
MessagesLoaded ==
  /\ \E c \in BagToSet(calls) :
       /\ c.kind = "messages" /\ c.stage = "response"
       /\ IF MessagesApplied(c) THEN
            Render(companies, c.rows, adminCompanyId, selectedConversation)
          ELSE UNCHANGED <<adminCompanyId, companies, messages, conversations,
                           selectedConversation>>
       /\ calls' = Settled(calls, c)
  /\ UNCHANGED <<dbvars, UserSettings, seq, schema, handlervars, authvars, user, newMessage, clock>>

ReconciledMut(prev, optimisticId, created) == prev
\* Lines 219-230: prev.map(item => item.id === optimisticId ? created : item)
Reconciled(prev, optimisticId, created) ==
  [i \in DOMAIN prev |-> IF prev[i].id = optimisticId THEN created ELSE prev[i]]

\* Lines 232-235: prev.filter(item => item.id !== optimisticId)
RolledBack(prev, optimisticId) == SelectSeq(prev, LAMBDA item : item.id # optimisticId)

\* Lines 219-235: the POST has been answered.
SendSettled ==
  /\ \E c \in BagToSet(calls) :
       /\ c.kind = "send" /\ c.stage = "response"
       /\ Render(companies,
                 IF c.ok THEN Reconciled(messages, c.optimisticId, c.created)
                 ELSE RolledBack(messages, c.optimisticId),
                 adminCompanyId, selectedConversation)
       /\ calls' = Settled(calls, c)
  /\ UNCHANGED <<dbvars, UserSettings, seq, schema, handlervars, authvars, user, newMessage, clock>>

\* The view of a browser that does not show it.
ViewClosed ==
  /\ user = [role |-> "", companyId |-> NULL, companyIdString |-> ""]
  /\ adminCompanyId = NULL
  /\ companies = <<>>
  /\ messages = <<>>
  /\ conversations = <<>>
  /\ selectedConversation = NoConversation
  /\ newMessage = ""
  /\ calls = EmptyBag
  /\ clock = 1
  /\ authToken = NullText
  /\ demoAuth = TRUE

\* Lines 62-69 and the first run of the effects: the view of user u mounted.
ViewMounted(u) ==
  /\ user = u
  /\ adminCompanyId = NULL
  /\ companies = <<>>
  /\ messages = <<>>
  /\ conversations = <<>>
  /\ selectedConversation = NoConversation
  /\ newMessage = ""
  /\ calls = loadMessages(loadCompanies(EmptyBag), effectiveCompanyId(NULL))
  /\ clock = 1
  /\ authToken = "dev-session-token"
  /\ demoAuth = TRUE

\* The user's actions in the view and the answers to its requests.
LoadSteps ==
  \/ ServeCompaniesColumns \/ ServeCompanies \/ ServeMessages
  \/ CompaniesLoaded \/ MessagesLoaded
  \/ SelectConversation

SendingSteps ==
  \/ \E text \in Drafts : Type(text)
  \/ Tick
  \/ handleSendMessage
  \/ ServeSend
  \/ SendSettled


(* -------------------- PUT /api/admin/companies/:id -------------------- *)
\* Lines 444-453: the keys of the body the handler looks at.
UpdateFields ==
  {"name", "industry", "location", "website", "email", "phone", "status", "description"}

\* The :id of the path: texts that are no id, the id of a company and an
\* id no company has.
PathIds == {"0", "abc", "1", "3"}

\* What a body holds under a key: the empty string, a text, or null.
BodyValues == {"", "new", NullText}

\* The keys a body may name: two of the fields and the key of a column that
\* is no field.
UpdateKeys == {"name", "email", "id"}
MaxBodyKeys == 2

UpdateBodies ==
  UNION {[K -> BodyValues] : K \in {S \in SUBSET UpdateKeys : Cardinality(S) <= MaxBodyKeys}}

UpdateCompanyRequests ==
  {[NoReq EXCEPT !.op = "updateCompany", !.param = i, !.body = b] :
     i \in PathIds, b \in UpdateBodies}

\* Lines 434-438 up to the first await.
UpdateCompanyStart(p, requests) ==
  /\ pc[p] = "idle"
  /\ \E r \in requests :
       /\ req' = [req EXCEPT ![p] = r]
       /\ IF Number(r.param) \in {0, NaN} THEN
            /\ Reply(p, Json(400, "Invalid company id."))
            /\ UNCHANGED loc
          ELSE
            /\ pc' = [pc EXCEPT ![p] = "uc_columns"]
            /\ loc' = [loc EXCEPT ![p].companyId = Number(r.param)]
            /\ UNCHANGED resp
  /\ UNCHANGED <<dbvars, seq, restvars, tx>>

NormalizedMut(value) == value
\* Line 461: value === '' ? null : value
Normalized(value) == IF value = "" THEN NullText ELSE value

\* Lines 455-473: setFragments with their values, as column |-> value.  A
\* field is set when the table has the column and the body has the key; the
\* timestamp column is added when something else is set.
Assignments(body, columns) ==
  LET keys == {k \in UpdateFields : k \in columns /\ k \in DOMAIN body}
  IN [k \in keys \cup (IF keys # {} THEN StampColumn(columns) ELSE {}) |->
        IF k \in keys THEN Normalized(body[k]) ELSE NewDate]

\* Lines 441-477: getTableColumns('Company'), the SET list, and the 400
\* when the list is empty.
UpdateCompanyColumns(p) ==
  /\ pc[p] = "uc_columns"
  /\ \E o \in QueryOutcomes :
       IF o = "err" THEN
         /\ Reply(p, Json(500, QueryError))
         /\ UNCHANGED loc
       ELSE LET set == Assignments(req[p].body, CompanyColumns)
            IN IF DOMAIN set = {} THEN
                 /\ Reply(p, Json(400, "No fields to update."))
                 /\ UNCHANGED loc
               ELSE
                 /\ pc' = [pc EXCEPT ![p] = "uc_update"]
                 /\ loc' = [loc EXCEPT ![p].assignments = set]
                 /\ UNCHANGED resp
  /\ UNCHANGED <<dbvars, seq, restvars, req, tx>>

\* UPDATE "Company" SET ... of one row.
Updated(row, set) ==
  [name |-> IF "name" \in DOMAIN set THEN set["name"] ELSE row.name,
   vals |-> [c \in DOMAIN row.vals |-> IF c \in DOMAIN set THEN set[c] ELSE row.vals[c]]]

\* Lines 479-492: UPDATE ... WHERE id = $n RETURNING *, then 404 without a
\* row and the row otherwise; a failing statement is answered with 500.
UpdateCompanyQuery(p) ==
  /\ pc[p] = "uc_update"
  /\ \E o \in Outcomes({"Company"}) :
       IF o = "err" THEN
         /\ Reply(p, Json(500, QueryError))
         /\ UNCHANGED Company
       ELSE IF loc[p].companyId \notin DOMAIN Company THEN
         /\ Reply(p, Json(404, "Company not found."))
         /\ UNCHANGED Company
       ELSE
         /\ Company' = [Company EXCEPT ![loc[p].companyId] = Updated(@, loc[p].assignments)]
         /\ Reply(p, [NoResp EXCEPT !.status = 200, !.id = loc[p].companyId,
                                    !.row = Company'[loc[p].companyId]])
  /\ UNCHANGED <<User, Post, Comment, Message, seq, restvars, req, loc, tx>>

(* --------------------------- PUT /api/profile -------------------------- *)
\* Lines 760-765: the keys of the user payload the handler looks at.
UserFields == {"name", "email", "phone", "avatar"}

\* The user payloads: none or an empty one, an email, the empty email, and
\* a name, which is a field the "User" table has no column for.
UserPayloads ==
  {<<>>} \cup {[k \in {"email"} |-> v] : v \in {"c@x", ""}} \cup {[k \in {"name"} |-> "new"]}

\* The bodies: without a userId, for user 1 and for a user that is not
\* there; without a companyId, for company 1 and for a company that is not
\* there; without a company payload or with one, which is kept in `body`.
ProfileUserIds == {NULL, 1, 3}
ProfileCompanyIds == {NULL, 1, 3}
ProfileKeys == {"name", "email"}

ProfileRequests ==
  {[NoReq EXCEPT !.op = "putProfile", !.userId = u, !.companyId = c, !.userPayload = up] :
     u \in ProfileUserIds, c \in ProfileCompanyIds, up \in UserPayloads}
  \cup
  {[NoReq EXCEPT !.op = "putProfile", !.userId = u, !.companyId = c, !.userPayload = up,
                 !.hasCompanyPayload = TRUE, !.body = b] :
     u \in ProfileUserIds, c \in ProfileCompanyIds, up \in UserPayloads,
     b \in {x \in UpdateBodies : DOMAIN x \subseteq ProfileKeys}}

\* Lines 750-754 up to the first await.
UpdateProfileStart(p, requests) ==
  /\ pc[p] = "idle"
  /\ \E r \in requests :
       /\ req' = [req EXCEPT ![p] = r]
       /\ IF r.userId = NULL THEN Reply(p, Json(400, "userId is required."))
          ELSE pc' = [pc EXCEPT ![p] = "pp_userColumns"] /\ UNCHANGED resp
  /\ UNCHANGED <<dbvars, seq, restvars, loc, tx>>

\* Lines 770-776: userSetFragments with their values, as column |-> value.
UserAssignments(payload, columns) ==
  [k \in {f \in UserFields : f \in columns /\ f \in DOMAIN payload} |-> Normalized(payload[k])]

\* Line 786: companyId || updates.user?.companyId
resolvedCompanyId(companyId, updates) ==
  IF companyId # NULL THEN companyId
  ELSE IF "user" \in DOMAIN updates THEN updates["user"].companyId
  ELSE NULL

\* Line 836: res.json({ ok: true, ...updates })
ProfileAnswer(updates) == [NoResp EXCEPT !.status = 200, !.updates = updates]

\* Lines 786-788 and 836: with a company to edit and a company payload the
\* handler goes on to the columns of "Company", otherwise it answers.
UpdateProfileResolved(p, updates) ==
  IF resolvedCompanyId(req[p].companyId, updates) # NULL /\ req[p].hasCompanyPayload THEN
    /\ pc' = [pc EXCEPT ![p] = "pp_companyColumns"]
    /\ loc' = [loc EXCEPT ![p].updates = updates,
                          ![p].companyId = resolvedCompanyId(req[p].companyId, updates)]
    /\ UNCHANGED resp
  ELSE
    /\ Reply(p, ProfileAnswer(updates))
    /\ UNCHANGED loc

\* Lines 757-777: await getTableColumns('User') and the SET list of the user.
UpdateProfileUserColumns(p) ==
  /\ pc[p] = "pp_userColumns"
  /\ \E o \in QueryOutcomes :
       IF o = "err" THEN
         /\ Reply(p, Json(500, QueryError))
         /\ UNCHANGED loc
       ELSE LET set == UserAssignments(req[p].userPayload, UserColumns)
            IN IF DOMAIN set # {} THEN
                 /\ pc' = [pc EXCEPT ![p] = "pp_user"]
                 /\ loc' = [loc EXCEPT ![p].assignments = set]
                 /\ UNCHANGED resp
               ELSE UpdateProfileResolved(p, <<>>)
  /\ UNCHANGED <<dbvars, seq, restvars, req, tx>>

\* UPDATE "User" SET ... of one row; of the four fields the rows keep email.
UserUpdated(row, set) ==
  [row EXCEPT !.email = IF "email" \in DOMAIN set THEN set["email"] ELSE @]

\* Line 784: userResult.rows[0] || null, of RETURNING id, email, "companyId".
ReturnedUser(u) ==
  IF u \in DOMAIN User' THEN [id |-> u, email |-> User'[u].email, companyId |-> User'[u].companyId]
  ELSE [id |-> NULL, email |-> NullText, companyId |-> NULL]

\* Lines 778-784: UPDATE "User" ... WHERE id = $n RETURNING id, email,
\* "companyId".  The statement is refused when "User" has no "companyId"
\* column, and waits for a transaction that holds the user deleted.
UpdateProfileUser(p) ==
  /\ pc[p] = "pp_user"
  /\ req[p].userId \notin LockedByOthers(p, "delUser")
  /\ \E o \in Outcomes({"User"}) :
       IF o = "err" \/ "companyId" \notin UserColumns THEN
         /\ Reply(p, Json(500, IF o = "err" THEN QueryError ELSE ColumnError))
         /\ UNCHANGED <<User, loc>>
       ELSE
         /\ User' = IF req[p].userId \in DOMAIN User
                    THEN [User EXCEPT ![req[p].userId] = UserUpdated(@, loc[p].assignments)]
                    ELSE User
         /\ UpdateProfileResolved(p, [k \in {"user"} |-> ReturnedUser(req[p].userId)])
  /\ UNCHANGED <<Company, Post, Comment, Message, seq, restvars, req, tx>>

\* Lines 789-813: await getTableColumns('Company') and the SET list of the
\* company, which is the one of lines 455-473.
UpdateProfileCompanyColumns(p) ==
  /\ pc[p] = "pp_companyColumns"
  /\ \E o \in QueryOutcomes :
       IF o = "err" THEN
         /\ Reply(p, Json(500, QueryError))
         /\ UNCHANGED loc
       ELSE LET set == Assignments(req[p].body, CompanyColumns)
            IN IF DOMAIN set # {} THEN
                 /\ pc' = [pc EXCEPT ![p] = "pp_company"]
                 /\ loc' = [loc EXCEPT ![p].assignments = set]
                 /\ UNCHANGED resp
               ELSE
                 /\ Reply(p, ProfileAnswer(loc[p].updates))
                 /\ UNCHANGED loc
  /\ UNCHANGED <<dbvars, seq, restvars, req, tx>>

\* Line 831: companyResult.rows[0] || null, of RETURNING id, name.
ReturnedCompany(c) ==
  IF c \in DOMAIN Company' THEN [id |-> c, name |-> Company'[c].name]
  ELSE [id |-> NULL, name |-> NullText]

\* Lines 815-832: UPDATE "Company" ... WHERE id = $n RETURNING id, name.  The
\* statement is refused when "Company" has no name column, and waits for a
\* transaction that holds the company deleted.
UpdateProfileCompany(p) ==
  /\ pc[p] = "pp_company"
  /\ loc[p].companyId \notin LockedByOthers(p, "delCompany")
  /\ \E o \in Outcomes({"Company"}) :
       IF o = "err" \/ "name" \notin CompanyColumns THEN
         /\ Reply(p, Json(500, IF o = "err" THEN QueryError ELSE ColumnError))
         /\ UNCHANGED Company
       ELSE
         /\ Company' = IF loc[p].companyId \in DOMAIN Company
                       THEN [Company EXCEPT ![loc[p].companyId] = Updated(@, loc[p].assignments)]
                       ELSE Company
         /\ Reply(p, ProfileAnswer([k \in {"company"} |-> ReturnedCompany(loc[p].companyId)]
                                   @@ loc[p].updates))
  /\ UNCHANGED <<User, Post, Comment, Message, seq, restvars, req, loc, tx>>

(* ---------------- the AuthProvider (src/unnamed/part_001) -------------- *)
\* Line 37: useState<User | null>(null).  Of the user the model keeps the
\* role and the company; null is the user without a role.
\* user.companyId is a number or null (companyId), or a string
\* (companyIdString, "" otherwise).
NoAuthUser == [role |-> "", companyId |-> NULL, companyIdString |-> ""]

\* Line 102: isAuthenticated: !!user
isAuthenticated == user.role # ""

\* The logins a visitor tries: the administrator's email with the
\* administrator's password and with another one.
AuthLogins == {<<"A@X", "pw1">>, <<"A@X", "pw2">>}

\* Roles handed to switchRole: null, 'admin', 'company'.
SwitchRoles == {"", "admin", "company"}

\* Lines 39-47: login sends POST /api/auth/login {email, password}.
login(email, password) ==
  /\ BagCardinality(calls) < MaxCalls
  /\ calls' = Calling(calls, [NoCall EXCEPT !.kind = "login", !.stage = "request",
                                            !.email = email, !.password = password])
  /\ UNCHANGED <<dbvars, UserSettings, seq, schema, handlervars, authvars, user, adminCompanyId,
                 companies, messages, conversations, selectedConversation, newMessage, clock>>

\* POST /api/auth/login (lines 142-167) reads the row for a call of the
\* provider and answers the calls that need no password check; apiFetch
\* throws for every answer that is not a success (api.ts, line 20).
ServeLogin ==
  /\ \E c \in BagToSet(calls) :
       /\ c.kind = "login" /\ c.stage = "request"
       /\ \E o \in Outcomes({"User"}) :
            LET r == [NoReq EXCEPT !.op = "login", !.email = c.email, !.password = c.password]
                found == UsersByEmail(normalizedEmail(c.email))
            IN IF o = "err" \/ LoginRefused THEN Answered(c, Failed(c))
               ELSE \E u \in (IF found = {} THEN {NULL} ELSE found) :
                      IF LoginRefusal(r, SelectedUser(u)).status # 0 THEN Answered(c, Failed(c))
                      ELSE Answered(c, [c EXCEPT !.stage = "compare", !.row = SelectedUser(u)])
  /\ UNCHANGED <<dbvars, UserSettings, seq, schema, handlervars, authvars, user, adminCompanyId,
                 companies, messages, conversations, selectedConversation, newMessage, clock>>

\* Lines 169-189: bcrypt.compare has returned or thrown, and the handler
\* answers from the row it holds.
ServeLoginCompare ==
  /\ \E c \in BagToSet(calls) :
       /\ c.kind = "login" /\ c.stage = "compare"
       /\ \E o \in QueryOutcomes :
            LET r == [NoReq EXCEPT !.op = "login", !.email = c.email, !.password = c.password]
                answer == LoginCompared(r, c.row)
            IN IF o = "err" \/ answer.status # 200 THEN
                 Answered(c, [Failed(c) EXCEPT !.row = NoUserRow])
               ELSE Answered(c, [c EXCEPT !.stage = "response", !.ok = TRUE, !.row = NoUserRow,
                                           !.token = answer.token, !.user = answer.user])
  /\ UNCHANGED <<dbvars, UserSettings, seq, schema, handlervars, authvars, user, adminCompanyId,
                 companies, messages, conversations, selectedConversation, newMessage, clock>>

\* Lines 49-73: the answer of the login.  On success the token is stored
\* and the user set; on failure the error is thrown again unless the demo
\* fallback is on, which stores 'demo-token' and sets a demo company user.
LoginSettled ==
  /\ \E c \in BagToSet(calls) :
       /\ c.kind = "login" /\ c.stage = "response"
       /\ calls' = Settled(calls, c)
       /\ IF c.ok THEN
            /\ authToken' = c.token
            /\ user' = [role |-> c.user.role, companyId |-> c.user.companyId,
                        companyIdString |-> ""]
          ELSE IF ~demoAuth THEN UNCHANGED <<authToken, user>>
          ELSE
            /\ authToken' = "demo-token"
            /\ user' = [role |-> "company", companyId |-> NULL,
                        companyIdString |-> "demo-company"]
  /\ UNCHANGED <<dbvars, UserSettings, seq, schema, handlervars, demoAuth, adminCompanyId,
                 companies, messages, conversations, selectedConversation, newMessage, clock>>

\* Lines 77-80.
logout ==
  /\ authToken' = NullText
  /\ user' = NoAuthUser
  /\ UNCHANGED <<dbvars, UserSettings, seq, schema, handlervars, demoAuth, adminCompanyId,
                 companies, messages, conversations, selectedConversation, newMessage,
                 calls, clock>>

\* Lines 82-96.
switchRole(role) ==
  /\ IF role = "" THEN user' = NoAuthUser
     ELSE IF ~isAuthenticated THEN UNCHANGED user
     ELSE user' = [user EXCEPT !.role = role]
  /\ UNCHANGED <<dbvars, UserSettings, seq, schema, handlervars, authvars, adminCompanyId,
                 companies, messages, conversations, selectedConversation, newMessage,
                 calls, clock>>


(* ------------------------- the seeded database ------------------------ *)
\* The full schema: every optional Company column, Comment(postId, authorId)
\* with authorId referencing Company, and a Role enum with both labels.
BaseSchema ==
  [companyName |-> TRUE,
   companyCols |-> OptionalCompanyCols,
   commentCols |-> {"postId", "authorId"},
   authorTarget |-> "Company",
   roleType |-> "Role",
   roleLabels |-> <<"admin", "company">>,
   userCols |-> {"id", "email", "password", "role", "companyId"},
   tables |-> {"Company", "User", "Post", "Comment", "Message", "UserSettings"}]

CompanyRow(name, cols) == [name |-> name, vals |-> [c \in cols |-> NullText]]

SeedCompanies(cols) == (1 :> CompanyRow("Admin", cols)) @@ (2 :> CompanyRow("Acme", cols))

\* User 1 belongs to company 2 and user 2 to company 1, so that a user id is
\* never by accident the id of the user's company.
SeedUsers ==
  (1 :> [email |-> "A@X", password |-> bcryptHash("pw1"), role |-> "admin", companyId |-> 2])
  @@ (2 :> [email |-> "b@x", password |-> bcryptHash("pw2"), role |-> "COMPANY", companyId |-> 1])

InitCommon ==
  /\ UserSettings = {}
  /\ ViewClosed
  /\ pc = [p \in Procs |-> "idle"]
  /\ req = [p \in Procs |-> NoReq]
  /\ loc = [p \in Procs |-> NoLoc]
  /\ resp = [p \in Procs |-> NoResp]
  /\ tx = [p \in Procs |-> NoTx]

(* ------------------------- ensureAdminCompany ------------------------- *)
\* Lines 50-52: without a name column there is nothing to ensure; a failing
\* query makes the function throw.
EnsureAdminColumns(p) ==
  /\ pc[p] = "ea_columns"
  /\ \E o \in QueryOutcomes :
       pc' = [pc EXCEPT ![p] = IF o = "err" THEN "ea_failed"
                               ELSE IF "name" \notin CompanyColumns THEN "ea_done"
                               ELSE "ea_select"]
  /\ UNCHANGED <<dbvars, seq, restvars, req, loc, resp, tx>>

AdminCompaniesMut == {c \in DOMAIN Company : Company[c].name = "Admin"}
\* Line 54: SELECT id FROM "Company" WHERE LOWER(name) = LOWER('Admin')
AdminCompanies == {c \in DOMAIN Company : toLowerCase(Company[c].name) = toLowerCase("Admin")}

\* Lines 54-56: with an Admin company found the function returns.
EnsureAdminSelect(p) ==
  /\ pc[p] = "ea_select"
  /\ \E o \in Outcomes({"Company"}) :
       pc' = [pc EXCEPT ![p] = IF o = "err" THEN "ea_failed"
                               ELSE IF AdminCompanies # {} THEN "ea_done"
                               ELSE "ea_insert"]
  /\ UNCHANGED <<dbvars, seq, restvars, req, loc, resp, tx>>

\* Lines 58-73: the row of the INSERT, with the name 'Admin', new Date() in
\* the timestamp column and NULL in the other columns.
AdminRow(columns) ==
  [name |-> "Admin",
   vals |-> [c \in schema.companyCols |->
               IF c \in StampColumn(columns) THEN NewDate ELSE NullText]]

\* Lines 58-78: INSERT INTO "Company" (name[, updatedAt]) VALUES ('Admin'[, now])
EnsureAdminInsert(p) ==
  /\ pc[p] = "ea_insert"
  /\ seq.Company <= MaxCompany
  /\ \E o \in Outcomes({"Company"}) :
       IF o = "err" THEN
         /\ pc' = [pc EXCEPT ![p] = "ea_failed"]
         /\ UNCHANGED <<Company, seq>>
       ELSE
         /\ Company' = (seq.Company :> AdminRow(CompanyColumns)) @@ Company
         /\ seq' = [seq EXCEPT !.Company = @ + 1]
         /\ pc' = [pc EXCEPT ![p] = "ea_done"]
  /\ UNCHANGED <<User, Post, Comment, Message, restvars, req, loc, resp, tx>>

(* ---------------------------- the startup ----------------------------- *)
\* The tables the startup steps name: "Message" and "UserSettings" are
\* created by them, "Company" and "User" are referenced and read.
StartupTables == {"Company", "User", "Message", "UserSettings"}

\* The table a step creates (lines 29 and 41), and the tables a step reads
\* or references (lines 31-32, 42, 50 and 54).
StepCreates(step) ==
  IF step = "ensureMessagesTable" THEN {"Message"}
  ELSE IF step = "ensureUserSettingsTable" THEN {"UserSettings"}
  ELSE {}

StepReads(step) ==
  IF step = "ensureMessagesTable" THEN {"Company"}
  ELSE IF step = "ensureUserSettingsTable" THEN {"User"}
  ELSE IF step = "ensureAdminCompany" THEN {"Company"}
  ELSE {}

\* Line 1268: the four calls of the array.  Each runs up to its first await,
\* so the four first queries are under way together.
StartServer(p) ==
  /\ pc[p] = "idle"
  /\ req' = [req EXCEPT ![p] = [NoReq EXCEPT !.op = "startup"]]
  /\ pc' = [pc EXCEPT ![p] = "ea_columns"]
  /\ loc' = [loc EXCEPT ![p].boot = [NoBoot EXCEPT !.steps = [s \in SideSteps |-> "running"]]]
  /\ UNCHANGED <<dbvars, seq, restvars, resp, tx>>

\* CREATE TABLE IF NOT EXISTS of a step: nothing to do when the table is
\* there; otherwise the table is created, which the store refuses when the
\* referenced table is missing.
EnsureTable(p, step) ==
  /\ loc[p].boot.steps[step] = "running"
  /\ \E o \in QueryOutcomes :
       IF o = "err" \/ (~(StepCreates(step) \subseteq schema.tables)
                         /\ ~(StepReads(step) \subseteq schema.tables)) THEN
         /\ loc' = [loc EXCEPT ![p].boot.steps[step] = "failed"]
         /\ UNCHANGED schema
       ELSE
         /\ schema' = [schema EXCEPT !.tables = @ \cup StepCreates(step)]
         /\ loc' = [loc EXCEPT ![p].boot.steps[step] = "done",
                               ![p].boot.created = @ \cup (StepCreates(step) \ schema.tables)]
  /\ UNCHANGED <<dbvars, seq, UserSettings, viewvars, pc, req, resp, tx>>

\* Lines 27-37.
ensureMessagesTable(p) == EnsureTable(p, "ensureMessagesTable")

\* Lines 39-47.
ensureUserSettingsTable(p) == EnsureTable(p, "ensureUserSettingsTable")

\* Lines 81-85: SELECT current_database(), current_schema().
logDatabaseInfo(p) ==
  /\ loc[p].boot.steps["logDatabaseInfo"] = "running"
  /\ \E o \in QueryOutcomes :
       loc' = [loc EXCEPT ![p].boot.steps["logDatabaseInfo"] =
                            IF o = "err" THEN "failed" ELSE "done"]
  /\ UNCHANGED <<dbvars, seq, restvars, pc, req, resp, tx>>

\* The steps of a start that are at work, have returned, have thrown.
StepsIn(p, status) ==
  {s \in SideSteps : loc[p].boot.steps[s] = status}
  \cup (IF \/ (status = "running" /\ pc[p] \in {"ea_columns", "ea_select", "ea_insert"})
           \/ (status = "done" /\ pc[p] = "ea_done")
           \/ (status = "failed" /\ pc[p] = "ea_failed")
        THEN {"ensureAdminCompany"} ELSE {})

AllFulfilledMut(p) == "ensureAdminCompany" \in StepsIn(p, "done")
\* Promise.all of line 1268 is fulfilled when every promise is.
AllFulfilled(p) == StepsIn(p, "done") = StartupSteps

\* Lines 1269-1273: then(() => app.listen(port)).
Listen(p) ==
  /\ loc[p].boot.outcome = ""
  /\ AllFulfilled(p)
  /\ loc' = [loc EXCEPT ![p].boot.outcome = "listening"]
  /\ UNCHANGED <<dbvars, seq, restvars, pc, req, resp, tx>>

\* Lines 1274-1276: Promise.all is rejected with the first step that
\* throws; the catch logs the error, and the other steps run on.
StartFailed(p) ==
  /\ loc[p].boot.outcome = ""
  /\ StepsIn(p, "failed") # {}
  /\ loc' = [loc EXCEPT ![p].boot.outcome = "failed"]
  /\ UNCHANGED <<dbvars, seq, restvars, pc, req, resp, tx>>

\* The server is stopped, with every step of the start over, and started
\* again later.
Stop(p) ==
  /\ loc[p].boot.outcome # ""
  /\ StepsIn(p, "running") = {}
  /\ pc' = [pc EXCEPT ![p] = "idle"]
  /\ req' = [req EXCEPT ![p] = NoReq]
  /\ loc' = [loc EXCEPT ![p] = NoLoc]
  /\ UNCHANGED <<dbvars, seq, restvars, resp, tx>>

(* ------------------- specification: the API server -------------------- *)
\* The Comment tables the handlers provide for: the post column in either
\* spelling (or missing), and the author kept in a companyId column, a
\* userId column, an authorId column that references User, Company or
\* nothing, or in no column at all.
CommentSchemas ==
  { [cols |-> {"postId", "authorId"}, target |-> "Company"],
    [cols |-> {"postId", "authorId"}, target |-> "User"],
    [cols |-> {"postId", "authorId"}, target |-> ""],
    [cols |-> {"postId", "companyId"}, target |-> ""],
    [cols |-> {"postId", "userId"}, target |-> ""],
    [cols |-> {"post_id", "company_id"}, target |-> ""],
    [cols |-> {"post_id", "user_id", "author_id"}, target |-> "Company"],
    [cols |-> {"postId"}, target |-> ""],
    [cols |-> {"authorId"}, target |-> "Company"] }

\* The seeded posts: post 1 written by company 1, post 2 by company 2.
SeedPosts == (1 :> [authorId |-> 1]) @@ (2 :> [authorId |-> 2])

\* The seeded messages: one between the two companies, one of company 2 alone.
SeedMessages ==
  (1 :> [senderCompanyId |-> 1, receiverCompanyId |-> 2, createdAt |-> 1])
  @@ (2 :> [senderCompanyId |-> 2, receiverCompanyId |-> 2, createdAt |-> 1])

\* The Comment rows a working comment handler would have stored under the
\* schema: on a seeded post, by user u for u's company.
SeedCommentRows(posts) ==
  LET author == AuthorOf(CommentColumns, 1, 1)
      postColumn == resolveColumn(CommentColumns, <<"postId", "post_id">>)
  IN IF author[1] = "" THEN {}
     ELSE { [ [NoComment EXCEPT ![RowField(author[1])] =
                                 AuthorOf(CommentColumns, SeedUsers[u].companyId, u)[2]]
              EXCEPT !.postId = IF postColumn = "" THEN NULL ELSE i ] :
            u \in DOMAIN SeedUsers, i \in DOMAIN posts }

\* The rows S as a table with ids 1..|S|.
Numbered(S) ==
  CHOOSE f \in [1..Cardinality(S) -> S] : \A i, j \in 1..Cardinality(S) : i # j => f[i] # f[j]

\* The Role enums the company handler provides for: none (role is text), an
\* enum with a 'company' label in either case, and an enum without one whose
\* type name the handler's second lookup finds or does not find.
BaseEnum == [type |-> "Role", labels |-> <<"admin", "company">>]
EnumSchemas ==
  { BaseEnum,
    [type |-> "", labels |-> <<>>],
    [type |-> "role", labels |-> <<"ADMIN", "COMPANY">>],
    [type |-> "Role", labels |-> <<"admin">>],
    [type |-> "ROLE", labels |-> <<"admin">>] }

\* The timestamp columns a Company table may have: none, updated_at, or
\* both spellings (of which the handlers write "updatedAt").
NoStamp == {{}}
StampSchemas == {{}, {"updated_at"}, StampCols}

\* The server with a schema among `schemas` and
\* `enums`, a Company table with the timestamp columns of one of `stamps`,
\* the seeded companies and users, the posts and messages of `seed`
\* and at most seed.comments comments.
InitServer(schemas, enums, users, stamps, seed) ==
  /\ InitCommon
  /\ \E cs \in schemas, en \in enums, us \in users, st \in stamps :
       schema = [BaseSchema EXCEPT !.commentCols = cs.cols, !.authorTarget = cs.target,
                                   !.roleType = en.type, !.roleLabels = en.labels,
                                   !.userCols = us,
                                   !.companyCols = OptionalCompanyCols \cup st]
  /\ Company = SeedCompanies(schema.companyCols)
  /\ User = SeedUsers
  /\ Post = seed.posts
  /\ Message = seed.messages
  /\ \E rows \in SUBSET SeedCommentRows(seed.posts) :
       /\ Cardinality(rows) <= seed.comments
       /\ Comment = Numbered(rows)
  /\ seq = [Company |-> 3, User |-> 3, Post |-> Cardinality(DOMAIN Post) + 1,
            Comment |-> Cardinality(DOMAIN Comment) + 1,
            Message |-> Cardinality(DOMAIN Message) + 1]

\* The steps of the handlers, the requests being drawn from the given sets.
ForumSteps(p, posts, comments, deletions) ==
  \/ CreatePostStart(p, posts) \/ CreatePostUser(p) \/ CreatePostCompany(p)
  \/ CreatePostColumns(p) \/ CreatePostInsert(p)
  \/ DeletePostStart(p, deletions) \/ DeletePostComments(p) \/ DeletePostRow(p)
  \/ CreateCommentStart(p, comments) \/ CreateCommentUser(p) \/ CreateCommentCompany(p)
  \/ CreateCommentColumns(p) \/ CreateCommentAuthor(p) \/ CreateCommentBuild(p)

SendSteps(p, sends) == SendMessageStart(p, sends) \/ SendMessageInsert(p)

ListSteps(p, lists) == ListMessagesStart(p, lists) \/ ListMessagesQuery(p)

\* The steps the two transactional handlers share.
TransactionSteps(p) == Connect(p) \/ Begin(p) \/ CommitAndReply(p) \/ Catch(p) \/ Abandon(p)

\* Company creation without the paired user (lines 286-343, 422-431).
CreateCompanySteps(p, creations) ==
  CreateCompanyStart(p, creations) \/ CreateCompanyColumns(p) \/ CreateCompanyInsert(p)

\* The paired user (lines 343-420).
PairedUserSteps(p) ==
  \/ CreateCompanyUserColumns(p) \/ CreateCompanyEnum(p) \/ CreateCompanyType(p)
  \/ CreateCompanyAlter(p) \/ CreateCompanyRefresh(p) \/ CreateCompanyRollback(p)
  \/ CreateCompanyExisting(p) \/ CreateCompanyHash(p) \/ CreateCompanyUser(p)

DeleteCompanySteps(p, deletions) ==
  \/ DeleteCompanyStart(p, deletions) \/ DeleteCompanyUserColumns(p)
  \/ DeleteCompanyPostColumns(p) \/ DeleteCompanyCommentColumns(p)
  \/ DeleteCompanyMessages(p)
  \/ DeleteCompanyCommentsByCompany(p) \/ DeleteCompanyCommentsByAuthor(p)
  \/ DeleteCompanyCommentsByUser(p) \/ DeleteCompanyCommentsByPost(p)
  \/ DeleteCompanyPosts(p) \/ DeleteCompanyUsers(p) \/ DeleteCompanyRow(p)
  \/ DeleteCompanyNotFound(p)

\* The statements of the deletion that are sent under the schema of Init:
\* "Comment" has no companyId and no userId column (lines 520, 534).
DeleteCompanyBaseSteps(p, deletions) ==
  \/ DeleteCompanyStart(p, deletions) \/ DeleteCompanyUserColumns(p)
  \/ DeleteCompanyPostColumns(p) \/ DeleteCompanyCommentColumns(p)
  \/ DeleteCompanyMessages(p) \/ DeleteCompanyCommentsByAuthor(p)
  \/ DeleteCompanyCommentsByPost(p) \/ DeleteCompanyPosts(p) \/ DeleteCompanyUsers(p)
  \/ DeleteCompanyRow(p) \/ DeleteCompanyNotFound(p)

(* --- Spec: two concurrent requests, any interleaving of their queries --- *)
\* The requests that race: the ones that pass validation, about the rows
\* that exist or are being created.
RacePosts ==
  {r \in CreatePostRequests : r.text = "t" /\ r.companyId = "" /\ r.userId = 2}
RaceComments ==
  {r \in CreateCommentRequests : r.id = 1 /\ r.text = "c" /\ r.companyId = 0 /\ r.userId = 2}
RacePostDeletions == {r \in DeletePostRequests : r.id = 1}
RaceSends ==
  {r \in SendMessageRequests : r.text = "c" /\ <<r.companyId, r.receiverId>> \in {<<1, 2>>}}
RaceCreations == {r \in CreateCompanyRequests : r.name = "Acme" /\ r.email = "" /\ r.password = ""}
RaceDeletions == {r \in DeleteCompanyRequests : r.id \in {1, 3}}

BaseComments == [cols |-> {"postId", "authorId"}, target |-> "Company"]
OnePost == (1 :> [authorId |-> 1])

\* The Company table of Init has both timestamp columns.
Init ==
  InitServer({BaseComments}, {BaseEnum}, {BaseSchema.userCols}, {StampCols},
             [posts |-> OnePost, messages |-> EmptyTable, comments |-> 1])

Next ==
  \E p \in Procs :
    \/ ForumSteps(p, RacePosts, RaceComments, RacePostDeletions)
    \/ SendSteps(p, RaceSends)
    \/ TransactionSteps(p)
    \/ CreateCompanySteps(p, RaceCreations)
    \/ DeleteCompanyBaseSteps(p, RaceDeletions)
    \/ Finish(p)

Spec == Init /\ [][Next]_vars

(* --- SpecForum: one request at a time, under every Comment schema ------- *)
InitForum ==
  InitServer(CommentSchemas, {BaseEnum}, {BaseSchema.userCols}, NoStamp,
             [posts |-> OnePost, messages |-> EmptyTable, comments |-> 2])

NextForum ==
  \E p \in {"p1"} :
    \/ ForumSteps(p, CreatePostRequests, CreateCommentRequests, DeletePostRequests)
    \/ Finish(p)

SpecForum == InitForum /\ [][NextForum]_vars

(* --- SpecCompany: company creation and deletion, one request at a time, - *)
(* --- under every Comment schema and every Role enum --------------------- *)
CompanySeed == [posts |-> SeedPosts, messages |-> SeedMessages, comments |-> 2]

\* The "User" table keeps the company in "companyId" or in company_id
\* (line 511).
UserSchemas == { BaseSchema.userCols, {"id", "email", "password", "role", "company_id"} }

\* The Company table has no timestamp column under the Comment schemas, and
\* none, updated_at or both spellings under the Role enums and User tables.
InitCompany ==
  \/ InitServer(CommentSchemas, {BaseEnum}, {BaseSchema.userCols}, NoStamp, CompanySeed)
  \/ InitServer({BaseComments}, EnumSchemas, UserSchemas, StampSchemas, CompanySeed)

NextCompany ==
  \E p \in {"p1"} :
    \/ TransactionSteps(p)
    \/ CreateCompanySteps(p, CreateCompanyRequests) \/ PairedUserSteps(p)
    \/ DeleteCompanySteps(p, DeleteCompanyRequests)
    \/ Finish(p)

SpecCompany == InitCompany /\ [][NextCompany]_vars

(* --- SpecMessages: two concurrent clients sending and listing ----------- *)
InitMessages ==
  InitServer({BaseComments}, {BaseEnum}, {BaseSchema.userCols}, NoStamp,
             [posts |-> EmptyTable, messages |-> EmptyTable, comments |-> 0])

NextMessages ==
  \E p \in Procs :
    SendSteps(p, SendMessageRequests) \/ ListSteps(p, ListMessagesRequests) \/ Finish(p)

SpecMessages == InitMessages /\ [][NextMessages]_vars

(* --- SpecCompanies: the listing under every set of optional columns ----- *)
\* Company 2 has a value in each optional column its table has.
InitCompanies ==
  /\ InitCommon
  /\ \E cols \in SUBSET OptionalCompanyCols : schema = [BaseSchema EXCEPT !.companyCols = cols]
  /\ Company = [SeedCompanies(schema.companyCols) EXCEPT
                  ![2].vals = [c \in schema.companyCols |-> "set"]]
  /\ \E S \in SUBSET (DOMAIN SeedUsers) : User = Restrict(SeedUsers, S)
  /\ Post = EmptyTable
  /\ Comment = EmptyTable
  /\ Message = EmptyTable
  /\ seq = [Company |-> 3, User |-> 3, Post |-> 1, Comment |-> 1, Message |-> 1]

NextCompanies ==
  \E p \in {"p1"} :
    ListCompaniesStart(p, ListCompaniesRequests) \/ ListCompaniesSelect(p)
    \/ ListCompaniesQuery(p) \/ Finish(p)

SpecCompanies == InitCompanies /\ [][NextCompanies]_vars

(* --- SpecView: one browser showing the Messages view -------------------- *)
\* Three companies; a message from company 1 to 2 and one from 3 to 1.
ViewCompanies == SeedCompanies(OptionalCompanyCols) @@ (3 :> CompanyRow("Zeta", OptionalCompanyCols))

ViewMessages ==
  (1 :> [senderCompanyId |-> 1, receiverCompanyId |-> 2, createdAt |-> 1])
  @@ (2 :> [senderCompanyId |-> 3, receiverCompanyId |-> 1, createdAt |-> 1])

InitView(u) ==
  /\ pc = [p \in Procs |-> "idle"]
  /\ req = [p \in Procs |-> NoReq]
  /\ loc = [p \in Procs |-> NoLoc]
  /\ resp = [p \in Procs |-> NoResp]
  /\ tx = [p \in Procs |-> NoTx]
  /\ schema = BaseSchema
  /\ Company = ViewCompanies
  /\ User = SeedUsers
  /\ Post = EmptyTable
  /\ Comment = EmptyTable
  /\ Message = ViewMessages
  /\ UserSettings = {}
  /\ seq = [Company |-> 4, User |-> 3, Post |-> 1, Comment |-> 1, Message |-> 3]
  /\ ViewMounted(u)

\* The view of a company's user.
InitCompanyView == InitView([role |-> "company", companyId |-> 1, companyIdString |-> ""])

NextView == LoadSteps \/ SendingSteps

SpecView == InitCompanyView /\ [][NextView]_vars

\* The view of an admin, who has no company and picks the one to act for.
InitAdminView == InitView([role |-> "admin", companyId |-> NULL, companyIdString |-> ""])

NextAdminView == LoadSteps \/ SelectCompany

SpecAdminView == InitAdminView /\ [][NextAdminView]_vars

(* --- SpecSettings: two concurrent clients saving and reading settings --- *)
InitSettings ==
  InitServer({BaseComments}, {BaseEnum}, {BaseSchema.userCols}, NoStamp,
             [posts |-> EmptyTable, messages |-> EmptyTable, comments |-> 0])

SettingsSteps(p, gets, puts) ==
  \/ GetSettingsStart(p, gets) \/ GetSettingsQuery(p)
  \/ PutSettingsStart(p, puts) \/ PutSettingsUpsert(p)

NextSettings ==
  \E p \in Procs : SettingsSteps(p, GetSettingsRequests, PutSettingsRequests) \/ Finish(p)

SpecSettings == InitSettings /\ [][NextSettings]_vars

(* --- SpecStartup: the server started again and again ------------------- *)
\* The Company table before the first start: empty, or with a company that
\* is not the Admin one, or with an Admin company in one of three spellings;
\* with any set of optional columns, with no timestamp column, updated_at
\* or both spellings, and with or without the name column (without it the
\* names are NULL).
StartupNames == {"Acme", "Admin", "ADMIN", "admin"}

InitStartup ==
  /\ InitCommon
  /\ \E cols \in SUBSET OptionalCompanyCols, st \in StampSchemas, named \in BOOLEAN :
       schema = [BaseSchema EXCEPT !.companyCols = cols \cup st, !.companyName = named]
  /\ \E names \in SUBSET StartupNames :
       /\ Cardinality(names) <= 1
       /\ Company = Numbered({CompanyRow(IF schema.companyName THEN n ELSE NullText,
                                         schema.companyCols) : n \in names})
  /\ User = EmptyTable
  /\ Post = EmptyTable
  /\ Comment = EmptyTable
  /\ Message = EmptyTable
  /\ seq = [Company |-> Cardinality(DOMAIN Company) + 1, User |-> 1, Post |-> 1,
            Comment |-> 1, Message |-> 1]

NextStartup ==
  \E p \in {"p1"} :
    \/ StartServer(p) \/ ensureMessagesTable(p) \/ ensureUserSettingsTable(p)
    \/ EnsureAdminColumns(p) \/ EnsureAdminSelect(p) \/ EnsureAdminInsert(p)
    \/ logDatabaseInfo(p) \/ Listen(p) \/ StartFailed(p) \/ Stop(p)

SpecStartup == InitStartup /\ [][NextStartup]_vars

(* --- SpecCreate: two concurrent company creations with a paired user ---- *)
\* One company and its administrator are there; the creations name an email
\* that is the administrator's in another case, or a new one.
RaceUserCreations ==
  {r \in CreateCompanyRequests :
     r.name = "Acme" /\ r.email \in {"a@x", "c@x"} /\ r.password = "pw1"}

InitCreate ==
  /\ InitCommon
  /\ \E st \in StampSchemas :
       schema = [BaseSchema EXCEPT !.companyCols = OptionalCompanyCols \cup st]
  /\ Company = (1 :> CompanyRow("Admin", schema.companyCols))
  /\ User = (1 :> [email |-> "A@X", password |-> bcryptHash("pw1"), role |-> "admin",
                   companyId |-> 1])
  /\ Post = EmptyTable
  /\ Comment = EmptyTable
  /\ Message = EmptyTable
  /\ seq = [Company |-> 2, User |-> 2, Post |-> 1, Comment |-> 1, Message |-> 1]

NextCreate ==
  \E p \in Procs :
    \/ CreateCompanyStart(p, RaceUserCreations) \/ Connect(p) \/ Begin(p)
    \/ CreateCompanyColumns(p) \/ CreateCompanyInsert(p) \/ CreateCompanyUserColumns(p)
    \/ CreateCompanyEnum(p) \/ CreateCompanyExisting(p) \/ CreateCompanyRollback(p)
    \/ CreateCompanyHash(p) \/ CreateCompanyUser(p)
    \/ CommitAndReply(p) \/ Catch(p) \/ Abandon(p) \/ Finish(p)

SpecCreate == InitCreate /\ [][NextCreate]_vars

(* --- SpecUpdate: company 1 and its user edited again and again --------- *)
\* The Company table has the name column or not, the email column or not,
\* and none, one or both of the timestamp columns; "status" is a field the
\* table never has here.  The "User" table keeps the company of user 1
\* in "companyId" or in company_id.
UpdateSchemaCols == {"email"} \cup StampCols

InitUpdate ==
  /\ InitCommon
  /\ \E cols \in SUBSET UpdateSchemaCols, named \in BOOLEAN, us \in UserSchemas :
       schema = [BaseSchema EXCEPT !.companyCols = cols, !.companyName = named,
                                   !.userCols = us]
  /\ Company = (1 :> [name |-> IF schema.companyName THEN "Admin" ELSE NullText,
                      vals |-> [c \in schema.companyCols |-> "old"]])
               @@ (2 :> [name |-> IF schema.companyName THEN "Acme" ELSE NullText,
                         vals |-> [c \in schema.companyCols |-> "old"]])
  /\ User = (1 :> [email |-> "A@X", password |-> bcryptHash("pw1"), role |-> "admin",
                   companyId |-> 1])
  /\ Post = EmptyTable
  /\ Comment = EmptyTable
  /\ Message = EmptyTable
  /\ seq = [Company |-> 3, User |-> 2, Post |-> 1, Comment |-> 1, Message |-> 1]

NextUpdate ==
  \E p \in {"p1"} :
    \/ UpdateCompanyStart(p, UpdateCompanyRequests) \/ UpdateCompanyColumns(p)
    \/ UpdateCompanyQuery(p)
    \/ UpdateProfileStart(p, ProfileRequests) \/ UpdateProfileUserColumns(p)
    \/ UpdateProfileUser(p) \/ UpdateProfileCompanyColumns(p) \/ UpdateProfileCompany(p)
    \/ Finish(p)

SpecUpdate == InitUpdate /\ [][NextUpdate]_vars

(* --- SpecAuth: the AuthProvider of a browser, with and without the demo - *)
(* --- fallback ----------------------------------------------------------- *)
InitAuth ==
  /\ pc = [p \in Procs |-> "idle"]
  /\ req = [p \in Procs |-> NoReq]
  /\ loc = [p \in Procs |-> NoLoc]
  /\ resp = [p \in Procs |-> NoResp]
  /\ tx = [p \in Procs |-> NoTx]
  /\ schema = BaseSchema
  /\ Company = SeedCompanies(schema.companyCols)
  /\ User = SeedUsers
  /\ Post = EmptyTable
  /\ Comment = EmptyTable
  /\ Message = EmptyTable
  /\ UserSettings = {}
  /\ seq = [Company |-> 3, User |-> 3, Post |-> 1, Comment |-> 1, Message |-> 1]
  /\ user = NoAuthUser
  /\ adminCompanyId = NULL
  /\ companies = <<>>
  /\ messages = <<>>
  /\ conversations = <<>>
  /\ selectedConversation = NoConversation
  /\ newMessage = ""
  /\ calls = EmptyBag
  /\ clock = 1
  /\ authToken = NullText
  /\ demoAuth \in BOOLEAN

NextAuth ==
  \/ \E l \in AuthLogins : login(l[1], l[2])
  \/ ServeLogin
  \/ ServeLoginCompare
  \/ LoginSettled
  \/ logout
  \/ \E role \in SwitchRoles : switchRole(role)

SpecAuth == InitAuth /\ [][NextAuth]_vars

(* --- SpecBoot: the four startup steps of a server, side by side --------- *)
\* The database before the first start: with or without the Company and
\* User tables, with or without the two tables the start creates (which
\* reference the former), and with or without an Admin company.
InitBoot ==
  /\ InitCommon
  /\ \E base \in {{}, {"Company", "User"}}, made \in SUBSET {"Message", "UserSettings"},
        named \in BOOLEAN, names \in {{}, {"Acme"}, {"admin"}}, st \in StampSchemas :
       /\ base = {} => (made = {} /\ ~named /\ names = {} /\ st = {})
       /\ schema = [BaseSchema EXCEPT !.tables = base \cup made, !.companyName = named,
                                      !.companyCols = st]
       /\ Company = Numbered({CompanyRow(IF named THEN n ELSE NullText, st) : n \in names})
  /\ User = EmptyTable
  /\ Post = EmptyTable
  /\ Comment = EmptyTable
  /\ Message = EmptyTable
  /\ seq = [Company |-> Cardinality(DOMAIN Company) + 1, User |-> 1, Post |-> 1,
            Comment |-> 1, Message |-> 1]

NextBoot ==
  \E p \in {"p1"} :
    \/ StartServer(p) \/ ensureMessagesTable(p) \/ ensureUserSettingsTable(p)
    \/ EnsureAdminColumns(p) \/ EnsureAdminSelect(p) \/ EnsureAdminInsert(p)
    \/ logDatabaseInfo(p) \/ Listen(p) \/ StartFailed(p) \/ Stop(p)

SpecBoot == InitBoot /\ [][NextBoot]_vars

(* ----------------------- specification: login ------------------------- *)
InitLogin ==
  /\ InitCommon
  /\ schema = BaseSchema
  /\ Company = SeedCompanies(schema.companyCols)
  /\ \E S \in SUBSET (DOMAIN SeedUsers) : User = Restrict(SeedUsers, S)
  /\ Post = EmptyTable
  /\ Comment = EmptyTable
  /\ Message = EmptyTable
  /\ seq = [Company |-> 3, User |-> 3, Post |-> 1, Comment |-> 1, Message |-> 1]

NextLogin ==
  \E p \in {"p1"} :
    LoginStart(p, LoginRequests) \/ LoginQuery(p) \/ LoginCompare(p) \/ Finish(p)

SpecLogin == InitLogin /\ [][NextLogin]_vars

LoginDone(p) == pc[p] = "done" /\ req[p].op = "login"

\* The row the credentials of request r are right for, if any.
RightFor(r, u) ==
  /\ toLowerCase(User[u].email) = toLowerCase(trim(r.email))
  /\ (r.role = "" \/ toLowerCase(r.role) = toLowerCase(User[u].role))
  /\ User[u].password = bcryptHash(r.password)

\* C1: login answers 200 with a token only when a user with the given email
\* exists, the requested role (if supplied) is the user's role and the
\* password matches the stored hash; with a wrong password or role the
\* answer is 401 and carries no token (400 and 500 carry none either).
C1_LoginOnlyWithRightCredentials ==
  \A p \in Procs : LoginDone(p) =>
    /\ resp[p].status = 200 =>
         /\ resp[p].token # ""
         /\ resp[p].user.id \in DOMAIN User
         /\ RightFor(req[p], resp[p].user.id)
    /\ resp[p].status # 200 => resp[p].token = ""
    /\ ( /\ req[p].email # "" /\ req[p].password # ""
         /\ resp[p].status # 500
         /\ \A u \in DOMAIN User : ~RightFor(req[p], u) )
       => resp[p].status = 401

\* A login has been accepted: the email and the password are the user's, and
\* the role asked for is the user's role in another spelling of case.
C1_Witness ==
  \E p \in Procs :
    /\ LoginDone(p) /\ resp[p].status = 200
    /\ req[p].role = "company" /\ User[resp[p].user.id].role = "COMPANY"

\* C13: login finds the user by the trimmed email without regard to case,
\* and the user record of a successful answer has exactly the fields id,
\* email, role and companyId, taken from the row found; no answer to a login
\* has a password field.
C13_LoginCaseInsensitiveReducedUser ==
  \A p \in Procs : LoginDone(p) =>
    /\ "password" \notin DOMAIN resp[p]
    /\ DOMAIN resp[p].user = {"id", "email", "role", "companyId"}
    /\ resp[p].status = 200 =>
         LET u == resp[p].user.id
         IN /\ u \in DOMAIN User
            /\ toLowerCase(User[u].email) = toLowerCase(trim(req[p].email))
            /\ resp[p].user.email = User[u].email
            /\ resp[p].user.companyId = User[u].companyId
            /\ toLowerCase(resp[p].user.role) = toLowerCase(User[u].role)
    /\ ( /\ resp[p].status # 500
         /\ \E u \in DOMAIN User :
              /\ RightFor(req[p], u)
              /\ \A v \in DOMAIN User :
                   toLowerCase(User[v].email) = toLowerCase(User[u].email) => v = u )
       => resp[p].status = 200

\* A login with the email " a@x " has been accepted for the user whose
\* stored email is "A@X".
C13_Witness ==
  \E p \in Procs :
    /\ LoginDone(p) /\ resp[p].status = 200
    /\ req[p].email = " a@x " /\ resp[p].user.email = "A@X"

(* ------------------- DELETE /api/admin/companies/:id ------------------ *)
\* The step on which p's company deletion commits and answers success.
DeleteCommitted(p) ==
  /\ pc[p] = "commit" /\ req[p].op = "deleteCompany"
  /\ pc'[p] = "done" /\ resp'[p].status = 200

\* C2: once the deletion of company C has answered success, no user of C, no
\* post authored by C, no comment authored by C or by a user of C or attached
\* to a post of C, and no message sent or received by C is left, whatever
\* author column the Comment table has.
C2_DeleteCompanyLeavesNoRows ==
  [][\A p \in Procs : DeleteCommitted(p) =>
       LET c == req[p].id
           users == {u \in DOMAIN User : User[u].companyId = c}
           posts == {i \in DOMAIN Post : Post[i].authorId = c}
       IN /\ c \notin DOMAIN Company'
          /\ \A u \in DOMAIN User' : User'[u].companyId # c
          /\ \A i \in DOMAIN Post' : Post'[i].authorId # c
          /\ \A k \in DOMAIN Comment' :
               /\ Comment'[k].companyId # c
               /\ Comment'[k].userId \notin users
               /\ Comment'[k].postId \notin posts
               /\ IF schema.authorTarget = "User"
                    THEN Comment'[k].authorId \notin users
                    ELSE Comment'[k].authorId # c
          /\ \A m \in DOMAIN Message' :
               Message'[m].senderCompanyId # c /\ Message'[m].receiverCompanyId # c ]_vars

\* Company 2, which had a user, a post, two messages and two seeded comments
\* about it, has been deleted with success.
C2_Witness ==
  \E p \in Procs :
    /\ pc[p] = "done" /\ req[p].op = "deleteCompany" /\ resp[p].status = 200
    /\ req[p].id = 2 /\ 2 \notin DOMAIN Company
    /\ seq.Comment = 3 /\ DOMAIN Comment = {}

\* The place of each statement of the company deletion in the handler.
DeleteRank(at) ==
  CASE at = "dc_message" -> 1
    [] at \in {"dc_commentCompany", "dc_commentAuthor", "dc_commentUser", "dc_commentPost"} -> 2
    [] at = "dc_post" -> 3
    [] at = "dc_user" -> 4
    [] at = "dc_company" -> 5
    [] OTHER -> 6

\* The step deletes rows of the table of `field` in p's transaction.
Deletes(p, field) == tx'[p][field] \ tx[p][field] # {}

\* C17: the company deletion sends its DELETEs in the order Message, Comment,
\* Post, User, Company: rows of a table are deleted only while nothing of a
\* later table has been deleted.  When the Post statement is sent no comment
\* is attached to a post of the company any more, and when the Company row
\* goes no post, user or comment of the company and no message from or to it
\* is left.
C17_DeleteCompanyInDependencyOrder ==
  [][\A p \in {"p1"} : req[p].op = "deleteCompany" =>
       /\ (DeleteRank(pc[p]) < 6 /\ pc'[p] # pc[p]) => DeleteRank(pc'[p]) >= DeleteRank(pc[p])
       /\ Deletes(p, "delMessage") /\ ~Deletes(p, "delCompany") =>
            tx[p].delComment \cup tx[p].delPost \cup tx[p].delUser \cup tx[p].delCompany = {}
       /\ Deletes(p, "delComment") =>
            tx[p].delPost \cup tx[p].delUser \cup tx[p].delCompany = {}
       /\ Deletes(p, "delPost") =>
            /\ tx[p].delUser \cup tx[p].delCompany = {}
            /\ \A i \in tx'[p].delPost : \A k \in DOMAIN ViewComment(p) : Comment[k].postId # i
       /\ Deletes(p, "delUser") => tx[p].delCompany = {}
       /\ pc[p] = "dc_post" =>
            \A k \in DOMAIN ViewComment(p) :
              Comment[k].postId = NULL \/ Comment[k].postId \notin DOMAIN ViewPost(p)
              \/ Post[Comment[k].postId].authorId # req[p].id
       /\ Deletes(p, "delCompany") =>
            LET c == req[p].id
            IN /\ tx'[p].delCompany = {c}
               /\ \A i \in DOMAIN Post \ tx'[p].delPost : Post[i].authorId # c
               /\ \A u \in DOMAIN User \ tx'[p].delUser : User[u].companyId # c
               /\ \A k \in DOMAIN Comment \ tx'[p].delComment :
                    /\ Comment[k].companyId # c
                    /\ schema.authorTarget = "Company" => Comment[k].authorId # c
               /\ \A m \in DOMAIN Message \ tx'[p].delMessage :
                    Message[m].senderCompanyId # c /\ Message[m].receiverCompanyId # c ]_vars

\* The deletion of a company is about to commit, having deleted messages,
\* comments, posts and users before the company row.
C17_Witness ==
  /\ pc["p1"] = "commit" /\ req["p1"].op = "deleteCompany"
  /\ tx["p1"].delCompany = {req["p1"].id}
  /\ tx["p1"].delMessage # {} /\ tx["p1"].delComment # {}
  /\ tx["p1"].delPost # {} /\ tx["p1"].delUser # {}

\* C3: in every reachable state, whatever the interleaving of the requests,
\* every Post, Comment and Message row (and every User row) references rows
\* that exist: a post its company, a message its two companies, a comment its
\* post and its author.
C3_RowsReferenceExistingCompanies ==
  /\ \A i \in DOMAIN Post : Post[i].authorId \in DOMAIN Company
  /\ \A m \in DOMAIN Message :
       /\ Message[m].senderCompanyId \in DOMAIN Company
       /\ Message[m].receiverCompanyId \in DOMAIN Company
  /\ \A u \in DOMAIN User : User[u].companyId \in DOMAIN Company
  /\ \A k \in DOMAIN Comment :
       /\ Comment[k].postId # NULL => Comment[k].postId \in DOMAIN Post
       /\ Comment[k].companyId # NULL => Comment[k].companyId \in DOMAIN Company
       /\ Comment[k].userId # NULL => Comment[k].userId \in DOMAIN User
       /\ Comment[k].authorId # NULL =>
            Comment[k].authorId \in DOMAIN (IF schema.authorTarget = "User" THEN User ELSE Company)

\* Two requests have raced: one has checked that its company exists and is
\* about to insert a post or a message for it, the other has deleted that
\* company in the meantime.
C3_Witness ==
  \E p \in Procs :
    \/ pc[p] = "cp_insert" /\ loc[p].companyId \notin DOMAIN Company
    \/ pc[p] = "sm_insert" /\ req[p].companyId \notin DOMAIN Company

\* C4: company deletion is atomic.  No step of the request changes the
\* committed rows except the commit that answers success, and the step that
\* answers 404 or 500 discards everything the transaction had deleted.
C4_DeleteCompanyAtomic ==
  [][\A p \in Procs : req[p].op = "deleteCompany" /\ ~DeleteCommitted(p) =>
       /\ UNCHANGED dbvars
       /\ (pc'[p] = "done" /\ resp'[p].status \in {404, 500}) => tx'[p] = NoTx ]_vars

\* The deletion of company 2 has deleted the company's messages and its
\* post, has then been refused the deletion of its user, whom a comment
\* references, and has answered 500: the messages, the post, the user and
\* the company are all there.
C4_Witness ==
  \E p \in Procs :
    /\ pc[p] = "done" /\ req[p].op = "deleteCompany" /\ req[p].id = 2
    /\ resp[p].status = 500 /\ resp[p].message = FkError
    /\ tx[p] = NoTx
    /\ 2 \in DOMAIN Company
    /\ \E u \in DOMAIN User : User[u].companyId = 2
    /\ \E i \in DOMAIN Post : Post[i].authorId = 2
    /\ \E m \in DOMAIN Message : Message[m].senderCompanyId = 2

\* C5: company creation is atomic.  When the request has ended with an error
\* answer, its transaction is closed and neither the Company row it inserted
\* nor a User row paired with it is among the committed rows.
C5_CreateCompanyAtomic ==
  \A p \in Procs :
    (pc[p] = "done" /\ req[p].op = "createCompany" /\ resp[p].status # 200) =>
      /\ tx[p] = NoTx
      /\ loc[p].newId \notin DOMAIN Company
      /\ \A u \in DOMAIN User : loc[p].newId = NULL \/ User[u].companyId # loc[p].newId

\* A creation that had inserted its Company row, with the timestamp in
\* "updatedAt", was refused because the email of the paired user is taken.
C5_Witness ==
  \E p \in Procs :
    /\ pc[p] = "done" /\ req[p].op = "createCompany"
    /\ resp[p].status = 400 /\ resp[p].message = "Email already exists."
    /\ loc[p].newId # NULL
    /\ StampColumn(CompanyColumns) = {"updatedAt"}

(* ------------------------------ the forum ------------------------------ *)
\* The company a post or comment request names: the companyId of the body,
\* or else the company of the user whose id the body gives; NULL when neither
\* gives one.
RequestedCompany(r) ==
  IF ~Falsy(ResolvedCompanyId(r.companyId)) THEN ResolvedCompanyId(r.companyId)
  ELSE IF r.userId \in DOMAIN User THEN User[r.userId].companyId
  ELSE NULL

\* C6: a post request with a title whose company cannot be resolved (no
\* companyId and no userId of a user with a company) or matches no Company
\* never gets to the INSERT, inserts no Post row, and is answered 400 (500
\* when one of its lookups fails), never with success.
C6_PostNeedsCompany ==
  [][\A p \in Procs :
       ( /\ req'[p].op = "createPost" /\ req'[p].text # ""
         /\ RequestedCompany(req'[p]) \notin DOMAIN Company )
       => /\ pc'[p] # "cp_insert"
          /\ Post' = Post
          /\ pc'[p] = "done" => resp'[p].status \in {400, 500} ]_vars

\* Both refusals have happened: a request naming no company and no user, and
\* (this state) a request naming a company id that matches no Company.
C6_Witness ==
  \E p \in Procs :
    /\ pc[p] = "done" /\ req[p].op = "createPost" /\ req[p].text = "t"
    /\ req[p].companyId = "3" /\ 3 \notin DOMAIN Company
    /\ resp[p].status = 400 /\ resp[p].message = "Company not found."

\* What the author column of a Comment table with these columns holds: the
\* company when there is a company column, else the user when there is a
\* user column, else what the authorId column references (the company unless
\* its foreign key names User); "none" when there is no author column.
AuthorKind(columns) ==
  LET lower == {toLowerCase(c) : c \in columns}
  IN IF lower \cap {"companyid", "company_id"} # {} THEN "company"
     ELSE IF lower \cap {"userid", "user_id"} # {} THEN "user"
     ELSE IF lower \cap {"authorid", "author_id"} # {}
       THEN (IF schema.authorTarget = "User" THEN "user" ELSE "company")
     ELSE "none"

\* The field of a Comment row in which a table of that kind keeps the author.
AuthorFields(columns) ==
  LET lower == {toLowerCase(c) : c \in columns}
  IN IF lower \cap {"companyid", "company_id"} # {} THEN {"companyId"}
     ELSE IF lower \cap {"userid", "user_id"} # {} THEN {"userId"}
     ELSE IF lower \cap {"authorid", "author_id"} # {} THEN {"authorId"}
     ELSE {}

\* C7: under every Comment schema the comment handler goes on to build its
\* INSERT only with exactly one author column chosen, the one the schema
\* keeps the author in, and with a non-null value for it (the company, or the
\* user, as the column requires); it refuses with 400 exactly the requests
\* for which the table has no author column or the request gives no value
\* for it.  No Comment row has a null author.
C7_CommentAuthorResolved ==
  \A p \in Procs : req[p].op = "createComment" =>
    /\ pc[p] = "cc_build" =>
         /\ loc[p].authorColumn \in schema.commentCols
         /\ AuthorFields(schema.commentCols) = {RowField(loc[p].authorColumn)}
         /\ loc[p].authorValue # NULL
         /\ loc[p].authorValue = IF AuthorKind(schema.commentCols) = "user"
                                   THEN req[p].userId ELSE loc[p].companyId
    /\ (pc[p] = "done" /\ resp[p].message = "Author is required to comment.") =>
         /\ resp[p].status = 400
         /\ \/ AuthorKind(schema.commentCols) = "none"
            \/ AuthorKind(schema.commentCols) = "user" /\ req[p].userId = NULL
    /\ \A k \in DOMAIN Comment :
         \A f \in AuthorFields(schema.commentCols) : Comment[k][f] # NULL

\* The table keeps the author in a user column, the request names a company
\* and no user: refused with 400.
C7_Witness ==
  \E p \in Procs :
    /\ pc[p] = "done" /\ req[p].op = "createComment"
    /\ resp[p].status = 400 /\ resp[p].message = "Author is required to comment."
    /\ req[p].companyId \in DOMAIN Company /\ req[p].userId = NULL
    /\ AuthorKind(schema.commentCols) = "user"

\* C8: a comment request that has passed every validation (post id, content,
\* existing company, author column and value) inserts exactly one Comment row
\* for its post and is answered with success.
C8_CommentIsCreated ==
  [][\A p \in Procs : (pc[p] = "cc_build" /\ pc'[p] = "done") =>
       /\ resp'[p].status = 200
       /\ \E k \in DOMAIN Comment' \ DOMAIN Comment :
            /\ DOMAIN Comment' = DOMAIN Comment \cup {k}
            /\ Comment'[k].postId = req[p].id ]_vars

(* ------------------------------ messages ------------------------------- *)
\* How many times message m occurs in the list `rows`.
Occurrences(rows, m) == Cardinality({n \in DOMAIN rows : rows[n] = m})

\* C9: a successful POST /api/messages from S to R, both existing companies,
\* stores one new message of S and R and returns its id; and every GET
\* /api/messages for a company returns each stored message that the company
\* sent or received exactly once, and nothing else.
C9_MessageListedOnce ==
  [][\A p \in Procs :
       /\ (pc[p] = "sm_insert" /\ pc'[p] = "done" /\ resp'[p].status = 200) =>
            /\ DOMAIN Message' = DOMAIN Message \cup {resp'[p].id}
            /\ resp'[p].id \notin DOMAIN Message
            /\ Message'[resp'[p].id].senderCompanyId = req[p].companyId
            /\ Message'[resp'[p].id].receiverCompanyId = req[p].receiverId
            /\ {req[p].companyId, req[p].receiverId} \subseteq DOMAIN Company
       /\ (pc[p] = "lm_query" /\ pc'[p] = "done" /\ resp'[p].status = 200) =>
            \A m \in DOMAIN Message :
              Occurrences(resp'[p].list, m) =
                IF req[p].companyId \in {Message[m].senderCompanyId, Message[m].receiverCompanyId}
                  THEN 1 ELSE 0
       /\ \A m \in DOMAIN Message : m \in DOMAIN Message' /\ Message'[m] = Message[m] ]_vars

\* Company 1 has sent company 2 a message, and the list company 2 was given
\* holds it.
C9_Witness ==
  \E p \in Procs :
    /\ pc[p] = "done" /\ req[p].op = "listMessages" /\ resp[p].status = 200
    /\ req[p].companyId = 2
    /\ \E n \in DOMAIN resp[p].list :
         /\ Message[resp[p].list[n]].senderCompanyId = 1
         /\ Message[resp[p].list[n]].receiverCompanyId = 2

\* C14: the list GET /api/messages?companyId=C answers with holds the stored
\* messages that C sent or received, each once, and no message between two
\* other companies; createdAt never decreases along the list.
C14_MessagesOfCompanyInTimeOrder ==
  [][\A p \in Procs :
       (pc[p] = "lm_query" /\ pc'[p] = "done" /\ resp'[p].status = 200) =>
         LET rows == resp'[p].list
             C == req[p].companyId
         IN /\ {rows[n] : n \in DOMAIN rows} =
                 {m \in DOMAIN Message :
                    Message[m].senderCompanyId = C \/ Message[m].receiverCompanyId = C}
            /\ \A i, j \in DOMAIN rows : i < j =>
                 /\ rows[i] # rows[j]
                 /\ Message[rows[i]].createdAt <= Message[rows[j]].createdAt ]_vars

\* Company 1 has been given exactly its one message, while a message of
\* company 2 to itself is stored as well.
C14_Witness ==
  \E p \in Procs :
    /\ pc[p] = "done" /\ req[p].op = "listMessages" /\ resp[p].status = 200
    /\ req[p].companyId = 1
    /\ Len(resp[p].list) = 1
    /\ 1 \in {Message[resp[p].list[1]].senderCompanyId, Message[resp[p].list[1]].receiverCompanyId}
    /\ \E m \in DOMAIN Message :
         /\ m < resp[p].list[1]
         /\ Message[m].senderCompanyId = 2 /\ Message[m].receiverCompanyId = 2

(* ----------------------------- the companies --------------------------- *)
\* C10: whatever optional columns the Company table has, the statement GET
\* /api/companies sends names none that is missing, and its answer lists
\* every company with all seven optional keys: the stored value for a column
\* the table has, null for one it has not.
C10_CompaniesListedWithAllKeys ==
  \A p \in Procs : req[p].op = "listCompanies" =>
    /\ pc[p] = "lc_query" =>
         {c \in OptionalCompanyCols : loc[p].select[c] = "column"} \subseteq schema.companyCols
    /\ pc[p] = "done" => resp[p].status \in {200, 500}
    /\ (pc[p] = "done" /\ resp[p].status = 200) =>
         /\ {resp[p].list[n]["id"] : n \in DOMAIN resp[p].list} = DOMAIN Company
         /\ Len(resp[p].list) = Cardinality(DOMAIN Company)
         /\ \A n \in DOMAIN resp[p].list :
              LET row == resp[p].list[n]
              IN /\ OptionalCompanyCols \subseteq DOMAIN row
                 /\ \A c \in OptionalCompanyCols :
                      row[c] = IF c \in schema.companyCols
                                 THEN Company[row["id"]].vals[c] ELSE NullText

\* The table has email and status and lacks the other five columns; the
\* list has been returned, with the values of the two and null for the rest.
C10_Witness ==
  \E p \in Procs :
    /\ pc[p] = "done" /\ req[p].op = "listCompanies" /\ resp[p].status = 200
    /\ schema.companyCols = {"email", "status"}
    /\ \E n \in DOMAIN resp[p].list :
         /\ resp[p].list[n]["email"] = "set"
         /\ resp[p].list[n]["industry"] = NullText

(* ------------------------- answered requests --------------------------- *)
\* C11: every exception raised while a request is processed, the failure of
\* pool.connect() and of the ROLLBACK of the error path included, ends in a
\* JSON {message} answer of status 500; no request is left unanswered.
C11_EveryExceptionAnswered ==
  [][\A p \in Procs :
       /\ pc'[p] # "unanswered"
       /\ (pc[p] \in {"catch", "catch_fk", "catch_column"} /\ pc'[p] # pc[p]) =>
            (pc'[p] = "done" /\ resp'[p].status = 500 /\ resp'[p].message # "")]_vars

(* --------------------------- the Messages view ------------------------- *)
\* The list `after` is the list `before` with the entry at position i
\* replaced by `entry`.
ReplacedAt(before, after, i, entry) ==
  /\ Len(after) = Len(before)
  /\ after[i] = entry
  /\ \A j \in DOMAIN before : j # i => after[j] = before[j]

\* The list `after` is the list `before` without its entry at position i.
RemovedAt(before, after, i) ==
  /\ Len(after) = Len(before) - 1
  /\ \A j \in DOMAIN after : after[j] = before[IF j < i THEN j ELSE j + 1]

\* C12: sending appends one optimistic entry to the message list at once;
\* when the POST succeeds that entry is replaced in place by the server's
\* message, the length of the list staying the same; when the POST fails that
\* entry is removed and every other entry stays as it was.
C12_OptimisticSendReconciled ==
  [][/\ (\E c \in BagToSet(calls') : c.kind = "send" /\ calls' = Calling(calls, c)) =>
          /\ Len(messages') = Len(messages) + 1
          /\ SubSeq(messages', 1, Len(messages)) = messages
          /\ messages'[Len(messages')].id < 0
     /\ \A c \in BagToSet(calls) :
          (c.kind = "send" /\ c.stage = "response" /\ calls' = Settled(calls, c)) =>
            \E i \in DOMAIN messages :
              /\ messages[i].id = c.optimisticId
              /\ IF c.ok THEN ReplacedAt(messages, messages', i, c.created)
                 ELSE RemovedAt(messages, messages', i)]_vars

\* The messages the view has sent with success: those stored beyond the
\* seeded ones.
SentByView == {m \in DOMAIN Message : m \notin DOMAIN ViewMessages}

\* C22: when no request of the view is in flight, every message the view has
\* sent with success is in the local message list exactly once.
C22_SentMessageListedOnce ==
  calls = EmptyBag =>
    \A m \in SentByView : Cardinality({i \in DOMAIN messages : messages[i].id = m}) = 1

\* C23: the answer of a message-list request made for a company other than
\* the effective company of the moment never changes the local message list;
\* whenever the list changes by an answer, the answer is that of a request
\* made for the effective company, and the list becomes its rows.
C23_StaleListNeverApplied ==
  [][LET e == effectiveCompanyId(adminCompanyId)
     IN /\ \A c \in BagToSet(calls) :
             ( /\ c.kind = "messages" /\ c.stage = "response"
               /\ calls' = Settled(calls, c)
               /\ c.companyId # e )
             => messages' = messages
        /\ (messages' # messages /\ BagCardinality(calls') < BagCardinality(calls))
             => \E c \in BagToSet(calls) :
                  /\ c.kind = "messages" /\ c.stage = "response" /\ c.ok
                  /\ calls' = Settled(calls, c)
                  /\ c.companyId = e
                  /\ messages' = c.rows ]_vars

\* The administrator has changed from company 1 to company 2, the list of
\* company 2 has been applied, and the answer of the request made for
\* company 1, holding both messages, has arrived after it.
C23_Witness ==
  /\ isAdmin /\ effectiveCompanyId(adminCompanyId) = 2
  /\ Len(messages) = 1 /\ messages[1].id = 1
  /\ \E c \in BagToSet(calls) :
       /\ c.kind = "messages" /\ c.stage = "response" /\ c.ok
       /\ c.companyId = 1 /\ Len(c.rows) = 2

(* ------------------------------ settings ------------------------------- *)
\* C15: saving the notifications is an upsert.  A successful PUT leaves
\* exactly one UserSettings row for its user, holding what it answered (the
\* object of the request), and changes no other user's row; nothing else
\* changes the table; so there is never more than one row for a user.  A
\* successful GET answers the notifications of the user's row, which are
\* those of the latest successful PUT, and an empty object when the user has
\* no row.
C15_SettingsUpsert ==
  [][/\ \A p \in Procs :
          /\ (pc[p] = "ps_upsert" /\ pc'[p] = "done" /\ resp'[p].status = 200) =>
               /\ {s \in UserSettings' : s.userId = req[p].userId} =
                    {[userId |-> req[p].userId, notifications |-> resp'[p].notifications]}
               /\ req[p].notifications \in JsonObjects =>
                    resp'[p].notifications = req[p].notifications
               /\ {s \in UserSettings' : s.userId # req[p].userId} =
                    {s \in UserSettings : s.userId # req[p].userId}
          /\ (pc[p] = "gs_query" /\ pc'[p] = "done" /\ resp'[p].status = 200) =>
               IF \E s \in UserSettings : s.userId = req[p].userId
               THEN \E s \in UserSettings :
                      s.userId = req[p].userId /\ resp'[p].notifications = s.notifications
               ELSE resp'[p].notifications = "{}"
     /\ (\A p \in Procs : ~(pc[p] = "ps_upsert" /\ pc'[p] = "done" /\ resp'[p].status = 200))
          => UserSettings' = UserSettings
     /\ \A s, t \in UserSettings' : s.userId = t.userId => s = t ]_vars

\* Two PUTs for user 1 have succeeded, with different notifications, and the
\* table holds one row for user 1.
C15_Witness ==
  /\ pc["p1"] = "done" /\ req["p1"].op = "putSettings" /\ resp["p1"].status = 200
  /\ pc["p2"] = "done" /\ req["p2"].op = "putSettings" /\ resp["p2"].status = 200
  /\ req["p1"].userId = 1 /\ req["p2"].userId = 1
  /\ req["p1"].notifications = "{email:true}" /\ req["p2"].notifications = "{email:false}"
  /\ Cardinality(UserSettings) = 1

(* ------------------------------- startup ------------------------------- *)
\* The companies whose name is Admin in some spelling of case.
NamedAdmin(table) == {c \in DOMAIN table : table[c].name \in {"Admin", "ADMIN", "admin"}}

\* C16: when ensureAdminCompany completes on a Company table that has a name
\* column, a company named Admin (in any case) exists; while one exists no
\* step of a start changes the Company table; so starts that follow one
\* another never bring a second Admin company.
C16_AdminCompanyEnsuredOnce ==
  [][\A p \in {"p1"} :
       /\ (pc[p] # "ea_done" /\ pc'[p] = "ea_done" /\ schema.companyName) =>
            NamedAdmin(Company') # {}
       /\ NamedAdmin(Company) # {} =>
            (Company' = Company /\ pc'[p] # "ea_insert")
       /\ Cardinality(NamedAdmin(Company')) <= 1 ]_vars

\* A start has found the company Acme alone, has inserted the Admin company
\* next to it, with the timestamp in "updatedAt" of the two timestamp
\* columns, and has completed.
C16_Witness ==
  /\ pc["p1"] = "ea_done" /\ schema.companyName
  /\ DOMAIN Company = {1, 2}
  /\ Company[1].name = "Acme" /\ Company[2].name = "Admin"
  /\ StampCols \subseteq schema.companyCols
  /\ Company[2].vals["updatedAt"] = NewDate /\ Company[2].vals["updated_at"] = NullText

(* --------------------- the company of a new post ---------------------- *)
\* The body names a company: its companyId converts to a non-zero number.
NamesCompany(r) == Number(r.companyId) \notin {0, NaN}

\* C18 as stated: the user lookup is made only for a request without a
\* companyId, and the Post row inserted carries the companyId of the body
\* when there is one, else the companyId of the user the body names.
C18_ExplicitCompanyIdPreferred ==
  [][\A p \in Procs :
       /\ pc'[p] = "cp_user" /\ pc[p] = "idle" => req'[p].companyId = ""
       /\ pc[p] = "cp_insert" /\ Post' # Post
          => \A i \in DOMAIN Post' \ DOMAIN Post :
               Post'[i].authorId = IF req[p].companyId # ""
                                   THEN Number(req[p].companyId)
                                   ELSE User[req[p].userId].companyId ]_vars

\* C18, amended: the effective company is the companyId of the body when it
\* converts to a non-zero number, and only otherwise (no companyId, or one
\* such as '0' or 'abc') the companyId of the user the body names; the user
\* lookup is made only in the second case, and the Post row inserted carries
\* the effective company as authorId.
C18_NumericCompanyIdPreferred ==
  [][\A p \in Procs :
       /\ pc'[p] = "cp_user" /\ pc[p] = "idle" => ~NamesCompany(req'[p])
       /\ pc'[p] = "cp_company" /\ pc[p] = "idle" => NamesCompany(req'[p])
       /\ pc[p] = "cp_insert" /\ Post' # Post
          => /\ Cardinality(DOMAIN Post' \ DOMAIN Post) = 1
             /\ \A i \in DOMAIN Post' \ DOMAIN Post :
                  /\ Post'[i].authorId = IF NamesCompany(req[p])
                                         THEN Number(req[p].companyId)
                                         ELSE User[req[p].userId].companyId
                  /\ resp'[p].status = 200 /\ resp'[p].id = i ]_vars

\* A post was created for the company of user 2 by a request whose companyId
\* is the text 'abc'.
C18_Witness ==
  \E p \in Procs :
    /\ pc[p] = "done" /\ req[p].op = "createPost" /\ req[p].companyId = "abc"
    /\ req[p].userId = 2 /\ resp[p].status = 200
    /\ resp[p].id \in DOMAIN Post
    /\ Post[resp[p].id].authorId = User[2].companyId

(* -------------------------- deleting a post --------------------------- *)
\* C19: DELETE /api/forum/posts/:id first deletes every Comment of the post
\* and only then the Post row; when it answers with success the Post row it
\* named was there and is gone and no Comment references it; when no Post
\* has the id it answers 404 (500 when one of its statements fails), never
\* with success, and 404 is answered only then.
C19_DeletePostCommentsFirst ==
  [][\A p \in Procs :
       /\ pc'[p] = "dp_post" /\ pc[p] # "dp_post"
          => /\ pc[p] = "dp_comments"
             /\ CommentsOfPost(Comment', req[p].id) = {}
             /\ Post' = Post
       /\ pc[p] = "dp_post" /\ Post' # Post
          => /\ CommentsOfPost(Comment, req[p].id) = {}
             /\ DOMAIN Post' = DOMAIN Post \ {req[p].id}
       /\ req[p].op = "deletePost" /\ pc[p] # "done" /\ pc'[p] = "done"
          => /\ resp'[p].status = 200
                => /\ pc[p] = "dp_post"
                   /\ req[p].id \in DOMAIN Post /\ req[p].id \notin DOMAIN Post'
                   /\ CommentsOfPost(Comment', req[p].id) = {}
                   /\ resp'[p].id = req[p].id
             /\ pc[p] = "dp_post" /\ req[p].id \notin DOMAIN Post
                => resp'[p].status \in {404, 500}
             /\ resp'[p].status = 404
                => pc[p] = "dp_post" /\ req[p].id \notin DOMAIN Post ]_vars

\* Post 1 and its two comments were deleted and the request answered with
\* success.
C19_Witness ==
  \E p \in Procs :
    /\ pc[p] = "done" /\ req[p].op = "deletePost" /\ req[p].id = 1
    /\ resp[p].status = 200 /\ resp[p].id = 1
    /\ seq.Comment = 3 /\ Comment = EmptyTable /\ 1 \notin DOMAIN Post

\* A deletion naming post 2, which does not exist, was answered 404.
C19_WitnessNotFound ==
  \E p \in Procs :
    /\ pc[p] = "done" /\ req[p].op = "deletePost" /\ req[p].id = 2
    /\ 2 \notin DOMAIN Post /\ seq.Post = 2
    /\ resp[p].status = 404 /\ resp[p].message = "Post not found."

(* --------------------- the conversations of the view ------------------ *)
\* Message m of the list is one between company e and company x.
Between(m, e, x) ==
  \/ m.senderCompanyId = e /\ m.receiverCompanyId = x
  \/ m.receiverCompanyId = e /\ m.senderCompanyId = x

\* The positions in the message list of the messages between e and x, and
\* the j-th of them.
Exchanged(e, x) == {i \in DOMAIN messages : Between(messages[i], e, x)}
ExchangedAt(e, x, j) ==
  CHOOSE i \in Exchanged(e, x) : Cardinality({k \in Exchanged(e, x) : k < i}) = j - 1

\* C20: with an effective company e, the conversations are, in the order of
\* the company list, one per listed company other than e; the conversation
\* of company x holds exactly the listed messages between e and x, each once
\* and in the order of the list (so none is in another conversation), and a
\* message's senderId is 'me' exactly when its sender is e.
C20_ConversationsPerCounterpart ==
  LET e == effectiveCompanyId(adminCompanyId)
      others == {i \in DOMAIN companies : companies[i].id # e}
  IN e # NULL =>
       /\ Len(conversations) = Cardinality(others)
       /\ \A k \in DOMAIN conversations :
            LET conv == conversations[k]
                at == CHOOSE i \in others : Cardinality({j \in others : j < i}) = k - 1
            IN /\ conv.id = companies[at].id
               /\ conv.id # e
               /\ \A l \in DOMAIN conversations : l # k => conversations[l].id # conv.id
               /\ Len(conv.messages) = Cardinality(Exchanged(e, conv.id))
               /\ \A j \in DOMAIN conv.messages :
                    LET m == messages[ExchangedAt(e, conv.id, j)]
                    IN /\ conv.messages[j].id = m.id
                       /\ conv.messages[j].senderId \in {"me", "other"}
                       /\ conv.messages[j].senderId = "me" <=> m.senderCompanyId = e

\* The view of company 1 shows the conversation with company 2 holding the
\* stored message 1 followed by a message just sent, both 'me', and the
\* conversation with company 3 holding message 2 as 'other'.
C20_Witness ==
  /\ effectiveCompanyId(adminCompanyId) = 1
  /\ Len(messages) = 3
  /\ \E k, l \in DOMAIN conversations :
       /\ conversations[k].id = 2 /\ Len(conversations[k].messages) = 2
       /\ conversations[k].messages[1] = [id |-> 1, senderId |-> "me"]
       /\ conversations[k].messages[2].senderId = "me"
       /\ conversations[l].id = 3
       /\ conversations[l].messages = <<[id |-> 2, senderId |-> "other"]>>

(* ----------------------- the Role enum of a new user ------------------ *)
\* The Role enum exists and none of its labels is 'company' in any case.
EnumLacksCompany == Len(EnumLabels) > 0 /\ CompanyLabel(EnumLabels) = ""

\* C21: with a Role enum that lacks 'company', a creation with a paired user
\* whose enum type was found and altered can go on to insert the User row
\* with the role 'company'; and when the enum type was not found, the request
\* answered 400 has left its transaction closed and neither its Company row
\* nor a User row of it among the committed rows.
C21_EnumAlteredThenUserInserted ==
  \A p \in Procs :
    /\ ( /\ pc[p] = "co_user" /\ req[p].op = "createCompany"
         /\ EnumLacksCompany /\ seq.User <= MaxUser )
       => ENABLED ( /\ CreateCompanyUser(p)
                    /\ pc'[p] = "commit"
                    /\ \E u \in DOMAIN tx'[p].insUser : tx'[p].insUser[u].role = "company" )
    /\ ( /\ pc[p] = "done" /\ req[p].op = "createCompany"
         /\ resp[p].message = "Role enum does not include \"company\" and could not be updated automatically." )
       => /\ resp[p].status = 400
          /\ tx[p] = NoTx
          /\ loc[p].newId \notin DOMAIN Company
          /\ \A u \in DOMAIN User : User[u].companyId # loc[p].newId

\* C24: a post deletion that is answered with an error (404 or 500) has
\* removed no Comment row.
C24_DeletePostAllOrNothing ==
  \A p \in Procs :
    (pc[p] = "done" /\ req[p].op = "deletePost" /\ resp[p].status \in {404, 500})
      => loc[p].deleted = {}

(* ------------------------- the emails of users ------------------------ *)
\* C25: no two committed User rows have emails that are equal without
\* regard to case, and a company creation answered with success has left
\* exactly one User row with its email.
C25_UserEmailsDistinct ==
  /\ \A u, v \in DOMAIN User :
       u # v => toLowerCase(User[u].email) # toLowerCase(User[v].email)
  /\ \A p \in Procs :
       ( /\ pc[p] = "done" /\ req[p].op = "createCompany" /\ resp[p].status = 200
         /\ req[p].email # "" /\ req[p].password # "" )
       => Cardinality({u \in DOMAIN User :
                         toLowerCase(User[u].email) = toLowerCase(req[p].email)}) = 1

(* ---------------------- the pooled client of a request ---------------- *)
\* How many times statement s is in the log.
Times(log, s) == Cardinality({i \in DOMAIN log : log[i] = s})

\* C26: a create-company or delete-company request that has ended (answered
\* or not) and had obtained a client has released it exactly once, as the
\* last thing it did with it; and when its BEGIN had opened a transaction,
\* exactly one COMMIT or ROLLBACK has ended it before the release.  A request
\* still running has not released its client.
C26_TransactionEndedBeforeRelease ==
  \A p \in Procs :
    LET log == loc[p].control
        ended == Times(log, "COMMIT") + Times(log, "ROLLBACK")
    IN req[p].op \in {"createCompany", "deleteCompany"} =>
         IF pc[p] \in {"done", "unanswered"} THEN
           /\ Times(log, "release") = Times(log, "connect")
           /\ Times(log, "connect") = 1 => log[Len(log)] = "release"
           /\ Times(log, "BEGIN") = 1 => ended = 1
           /\ Times(log, "BEGIN") = 0 => Times(log, "COMMIT") = 0
         ELSE Times(log, "release") = 0

(* ------------------------ what a failed login tells ------------------- *)
\* C27: a login with a password that is not the password of a user with the
\* email is answered (unless the query fails) with the status and message
\* that the same request gets when no user has the email, whatever role it
\* asks for.
C27_FailedLoginHidesRegistration ==
  [][\A p \in Procs :
       ( /\ pc[p] \in {"login_query", "login_compare"} /\ pc'[p] = "done"
         /\ resp'[p].status # 500
         /\ \A u \in UsersByEmail(normalizedEmail(req[p].email)) :
              ~bcryptCompare(req[p].password, User[u].password) )
       => /\ resp'[p].status = LoginAnswer(req[p], NoUserRow).status
          /\ resp'[p].message = LoginAnswer(req[p], NoUserRow).message ]_vars

(* ------------------------- token and user ----------------------------- *)
\* C28: an authToken is in localStorage exactly when the provider has a
\* user.
C28_TokenIffUser == (authToken # NullText) <=> isAuthenticated

(* --------------------- editing a company (PUT) ------------------------ *)
\* The value of column c in a Company row.
ColumnOf(row, c) == IF c = "name" THEN row.name ELSE row.vals[c]

\* The columns of a Company row that an edit can reach.
RowColumns == (IF schema.companyName THEN {"name"} ELSE {}) \cup schema.companyCols

\* What the table is to hold for a value of the body: NULL for ''.
StoredFor(value) == IF value = "" THEN NullText ELSE value

\* What the step that answers an update request does to the table when
\* `settable` are the columns the body can set: no other row is touched; in
\* the addressed row only settable columns and the timestamp column change,
\* and a changed settable column holds the body's value with '' turned into
\* NULL; an answer 200 has set every settable column and the timestamp.
UpdateStored(p, settable) ==
  LET body == req'[p].body
      id == Number(req'[p].param)
  IN /\ \A c \in DOMAIN Company : c # id => Company'[c] = Company[c]
     /\ DOMAIN Company' = DOMAIN Company
     /\ id \in DOMAIN Company =>
          \A c \in RowColumns :
            \/ ColumnOf(Company'[id], c) = ColumnOf(Company[id], c)
            \/ c \in settable /\ ColumnOf(Company'[id], c) = StoredFor(body[c])
            \/ c \in StampCols /\ ColumnOf(Company'[id], c) = NewDate
     /\ resp'[p].status = 200 =>
          /\ id \in DOMAIN Company
          /\ \A c \in settable \cap RowColumns :
               ColumnOf(Company'[id], c) = StoredFor(body[c])
          /\ \A c \in StampCols \cap RowColumns :
               c = "updatedAt" \/ "updatedAt" \notin RowColumns =>
                 ColumnOf(Company'[id], c) = NewDate

\* The error answers as the claim states them: without a settable column
\* the answer is 400, with one and without a company of that id 404 (unless
\* a query failed), and in both cases the table is as it was.
UpdateRefused(p, settable) ==
  LET id == Number(req'[p].param)
      failed == resp'[p].status = 500
  IN /\ settable = {} /\ ~failed => resp'[p].status = 400 /\ Company' = Company
     /\ settable # {} /\ id \notin DOMAIN Company /\ ~failed =>
          resp'[p].status = 404 /\ Company' = Company

\* The error answers with the test of the id first: an id that is no
\* non-zero number is answered 400 whatever the body holds, with no query
\* sent; for the other ids the answers are the ones above.
UpdateRefusedById(p, settable) ==
  LET id == Number(req'[p].param)
  IN IF id \in {0, NaN}
     THEN resp'[p].status = 400 /\ resp'[p].message = "Invalid company id."
          /\ Company' = Company
     ELSE UpdateRefused(p, settable)

\* The step that answers an update request; the request is the one of the
\* state the step leads to, since the first step of the handler receives it
\* and may answer it.
UpdateAnswers(p) == req'[p].op = "updateCompany" /\ pc[p] # "done" /\ pc'[p] = "done"

\* C29: an update of a company changes only the columns whose keys are in
\* the body and that the Company table has (and the timestamp), stores ''
\* as NULL, answers 400 when the body names no such column and 404 when no
\* company has the id, and changes no row in both cases.
C29_UpdatesNamedColumns ==
  [][\A p \in Procs :
       UpdateAnswers(p) =>
         LET settable == DOMAIN req'[p].body \cap CompanyColumns
         IN UpdateStored(p, settable) /\ UpdateRefused(p, settable)]_vars

\* C29, with the columns the handler accepts and the test of the id: the
\* same for the keys of the body that are among the eight fields of the
\* handler and that the Company table has, with 400 for an id that is no
\* non-zero number, 400 for a body without such a key and otherwise 404
\* when no company has the id.
C29_UpdatesNamedFields ==
  [][\A p \in Procs :
       UpdateAnswers(p) =>
         LET settable == DOMAIN req'[p].body \cap UpdateFields \cap CompanyColumns
         IN UpdateStored(p, settable) /\ UpdateRefusedById(p, settable)]_vars

\* An update has stored NULL for the '' of the body under the name and left
\* alone the email, a field of the body that the table does not have.
C29_Witness ==
  \E p \in Procs :
    /\ pc[p] = "done" /\ req[p].op = "updateCompany" /\ resp[p].status = 200
    /\ DOMAIN req[p].body = {"name", "email"}
    /\ req[p].body["name"] = ""
    /\ "email" \notin schema.companyCols
    /\ "updated_at" \in schema.companyCols
    /\ Company[1].name = NullText
    /\ Company[1].vals["updated_at"] = NewDate

(* --------------------------- the startup ------------------------------ *)
\* C30: the server listens only after the Message table, the UserSettings
\* table and the Admin company have been ensured (every step has returned,
\* both tables exist, and an Admin company exists when Company has a name
\* column); a start with a failed step does not listen; and no step at work
\* reads a table that another step at work is there to create.
C30_ListensAfterStartup ==
  \A p \in Procs :
    /\ loc[p].boot.outcome = "listening" =>
         /\ StepsIn(p, "done") = StartupSteps
         /\ {"Message", "UserSettings"} \subseteq schema.tables
         /\ schema.companyName => AdminCompanies # {}
    /\ StepsIn(p, "failed") # {} => loc[p].boot.outcome # "listening"
    /\ \A s \in StepsIn(p, "running"), t \in StepsIn(p, "running") :
         s # t => StepReads(s) \cap StepCreates(t) = {}

\* A server listens after a start that created both tables and found no
\* Admin company, so that it inserted one, with the timestamp in updated_at.
C30_Witness ==
  /\ loc["p1"].boot.outcome = "listening"
  /\ loc["p1"].boot.created = {"Message", "UserSettings"}
  /\ schema.companyName
  /\ Cardinality(AdminCompanies) = 1
  /\ Company[seq.Company - 1].name = "Admin"
  /\ schema.companyCols = {"updated_at"}
  /\ Company[seq.Company - 1].vals["updated_at"] = NewDate

====
